---- MODULE Spec2Model ----
(***************************************************************************)
(* Verification model of darionou/landing-page-shopify.                    *)
(*                                                                         *)
(* Nine components are modelled, each with its own specification:         *)
(*   SpecCall     - the retry loop ShopifyApiProvider.makeApiCall, driven  *)
(*                  by a caller supplied thunk or by the makeGraphQLCall   *)
(*                  thunk;                                                 *)
(*   SpecProxy    - ProxyHandler.handleUserLanding, in its two revisions   *)
(*                  (service based with fallback chain, provider based);   *)
(*   SpecServices - CustomerService.getCustomerById and createCustomer,    *)
(*                  ProductService.getDefaultProduct and getProductById,   *)
(*                  in their revisions;                                    *)
(*   SpecByIds    - ProductService.getProductsByIds;                       *)
(*   SpecProvider - construction, getInstance and reset of the singleton   *)
(*                  ShopifyApiProvider;                                    *)
(*   SpecIds      - toGraphQLId and toRestId;                              *)
(*   SpecSeeder   - DataSeeder.seedCustomers and seedProducts;             *)
(*   SpecRun      - the runSeeders script;                                 *)
(*   SpecCalls    - two makeApiCall invocations interleaved on one         *)
(*                  provider.                                              *)
(* JavaScript values are records; an optional value is a sequence of       *)
(* length 0 (absent) or 1.                                                 *)
(***************************************************************************)
EXTENDS Integers, Sequences, FiniteSets, TLC

VARIABLES
    \* ---- makeApiCall ----
    retryConfig,   \* this.retryConfig of the provider
    callKind,      \* which thunk the call runs: "api" or "graphql"
    pc,            \* position of the call: idle, run, sleeping, returned, thrown
    attempt,       \* the loop variable of makeApiCall
    lastError,     \* the local lastError (an optional error)
    outcomes,      \* what the thunk did at each invocation, in order
    delays,        \* the argument of each sleep() performed, in order
    callResult,    \* the value returned (optional)
    callError,     \* the ShopifyApiError raised (optional)
    \* ---- handleUserLanding ----
    revision,      \* which handleUserLanding revision serves the request
    nodeEnv,       \* process.env.NODE_ENV
    hpc,           \* position of the handler
    userId,        \* req.query.user_id
    customerData,  \* the local customerData (optional)
    lookups,       \* the lookups made so far, in order
    results,       \* what each lookup gave, in order
    responses,     \* the responses sent on res, in order
    \* ---- CustomerService / ProductService ----
    svcOp,         \* the service method running
    svcRevision,   \* which revision of the service runs it
    spc,           \* position of the method
    upstream,      \* the provider calls made and what each gave, in order
    svcCustomer,   \* the local customer or customerData (optional)
    svcOutcome,    \* what the method gave its caller (optional)
    \* ---- ShopifyApiProvider singleton ----
    instance,      \* the static ShopifyApiProvider.instance (optional)
    created,       \* how many providers were constructed so far
    history,       \* the getInstance and reset calls made and their results
    lastArgs,      \* what the latest getInstance call was given (optional)
    \* ---- id conversion ----
    ipc,           \* position of the conversion
    restId,        \* the number given to toGraphQLId (optional)
    resourceType,  \* the resource type given to toGraphQLId
    graphqlId,     \* the string given to toRestId (optional)
    idOutcome,     \* what toRestId gave (optional)
    \* ---- DataSeeder ----
    seedPc,        \* position of the batch: idle, running, returned, thrown
    seedKind,      \* which batch runs: "customers" or "products"
    seedInput,     \* the entries given to seedCustomers / seedProducts
    seedCalls,     \* the service create calls made and what each gave
    seedIds,       \* the local createdIds of seedCustomers
    seedMap,       \* the local createdProductsMap of seedProducts
    seedError,     \* the error the batch raised (optional)
    run,           \* the runSeeders script: its position and what it holds
    \* ---- two calls through one provider ----
    calls,         \* the state of each makeApiCall in flight, by caller
    \* ---- getProductsByIds ----
    byIds          \* the getProductsByIds call: position, input, locals

callVars == <<retryConfig, callKind, pc, attempt, lastError, outcomes, delays,
              callResult, callError>>
proxyVars == <<revision, nodeEnv, hpc, userId, customerData, lookups, results,
               responses>>
svcVars == <<svcOp, svcRevision, spc, upstream, svcCustomer, svcOutcome>>
providerVars == <<instance, created, history, lastArgs>>
idVars == <<ipc, restId, resourceType, graphqlId, idOutcome>>
seedVars == <<seedPc, seedKind, seedInput, seedCalls, seedIds, seedMap,
              seedError, run>>
vars == <<callVars, proxyVars, svcVars, providerVars, idVars, seedVars, calls,
          byIds>>

exceptCall == <<proxyVars, svcVars, providerVars, idVars, seedVars,
    calls, byIds>>
exceptProxy == <<callVars, svcVars, providerVars, idVars, seedVars,
    calls, byIds>>
exceptServices == <<callVars, proxyVars, providerVars, idVars, seedVars,
    calls, byIds>>
exceptProvider == <<callVars, proxyVars, svcVars, idVars, seedVars,
    calls, byIds>>
exceptIds == <<callVars, proxyVars, svcVars, providerVars, seedVars,
    calls, byIds>>
exceptSeeder == <<callVars, proxyVars, svcVars, providerVars, idVars,
    calls, byIds>>
exceptCalls == <<callVars, proxyVars, svcVars, providerVars, idVars, seedVars,
    byIds>>
exceptByIds == <<callVars, proxyVars, svcVars, providerVars, idVars, seedVars,
    calls>>

None == <<>>
Some(v) == <<v>>
Min(a, b) == IF a <= b THEN a ELSE b

\* no service method is running
ServicesIdle ==
    /\ svcOp = "none"
    /\ svcRevision = "rest"
    /\ spc = "idle"
    /\ upstream = <<>>
    /\ svcCustomer = None
    /\ svcOutcome = None

\* no provider was asked for
ProviderIdle ==
    /\ instance = None
    /\ created = 0
    /\ history = <<>>
    /\ lastArgs = None

\* no id is being converted
IdsIdle ==
    /\ ipc = "idle"
    /\ restId = None
    /\ resourceType = <<>>
    /\ graphqlId = None
    /\ idOutcome = None

\* no batch is being seeded
SeederIdle ==
    /\ seedPc = "idle"
    /\ seedKind = "customers"
    /\ seedInput = <<>>
    /\ seedCalls = <<>>
    /\ seedIds = <<>>
    /\ seedMap = <<>>
    /\ seedError = None
    /\ run = [pc |-> "idle", productCalls |-> <<>>, productMap |-> <<>>,
              result |-> None]

\* no second call is in flight
CallsIdle == calls = <<>>

\* getProductsByIds was not called
ByIdsIdle ==
    byIds = [pc |-> "idle", rev |-> "rest", productIds |-> <<>>,
             lookups |-> <<>>, products |-> <<>>]

(***************************************************************************)
(* Bounds of the model.                                                    *)
(***************************************************************************)
MaxRetriesBound == 3
MaxBaseDelay == 2
MaxMaxDelay == 5

RetryConfigs ==
    [maxRetries : 0..MaxRetriesBound,
     baseDelay  : 1..MaxBaseDelay,
     maxDelay   : 1..MaxMaxDelay]

(***************************************************************************)
(* Errors.  An error thrown by a thunk may carry error.response with a     *)
(* status and a data payload; hasResponse is FALSE for network failures    *)
(* and for plain Error objects.                                            *)
(***************************************************************************)
HttpError(msg, status) ==
    [name |-> "Error", message |-> msg, hasResponse |-> TRUE,
     status |-> status, data |-> "payload"]

PlainError(msg) ==
    [name |-> "Error", message |-> msg, hasResponse |-> FALSE,
     status |-> 0, data |-> "none"]

\* class ShopifyApiError(message, statusCode?, response?)
ShopifyApiError(msg, hasStatus, statusCode, response) ==
    [name |-> "ShopifyApiError", message |-> msg, hasStatusCode |-> hasStatus,
     statusCode |-> statusCode, response |-> response]

\* a ShopifyApiError seen as a caught error: it has no .response.status
\* unless its .response payload has one, which the payloads here do not
AsCaught(e) ==
    [name |-> e.name, message |-> e.message, hasResponse |-> FALSE,
     status |-> 0, data |-> "none"]

Statuses == {399, 400, 404, 429, 499, 500}

ThrownErrors ==
    {HttpError("Request failed", s) : s \in Statuses}
        \cup {PlainError("Network down")}

(***************************************************************************)
(* Values a thunk resolves with.                                           *)
(***************************************************************************)
JsNull == [type |-> "null", hasBody |-> FALSE, errKind |-> "absent",
           errList |-> <<>>, tag |-> "null"]

PlainObject(tag) == [type |-> "object", hasBody |-> FALSE, errKind |-> "absent",
                     errList |-> <<>>, tag |-> tag]

\* an object with a body key; errKind is absent, array or string
Envelope(errKind, errList) ==
    [type |-> "object", hasBody |-> TRUE, errKind |-> errKind,
     errList |-> errList, tag |-> "envelope"]

ResolvedValues ==
    {JsNull, PlainObject("success"),
     Envelope("absent", <<>>),
     Envelope("array", <<"Error 1", "Error 2">>),
     Envelope("string", <<"Single error">>),
     Envelope("string", <<"">>)}

\* JavaScript truthiness of a resolved value
Truthy(v) == v.type # "null"

\* Array.prototype.join(', ')
RECURSIVE Join(_)
Join(seq) ==
    IF seq = <<>> THEN ""
    ELSE IF Len(seq) = 1 THEN seq[1]
    ELSE seq[1] \o ", " \o Join(Tail(seq))

(***************************************************************************)
(* Thunks.  An invocation of the thunk either resolves with a value or     *)
(* rejects with an error.                                                  *)
(***************************************************************************)
Resolved(v) == [kind |-> "resolve", value |-> Some(v), error |-> None]
Rejected(e) == [kind |-> "reject", value |-> None, error |-> Some(e)]

\* the thunk handed to makeApiCall by a caller: anything may happen
ApiThunkOutcomes ==
    {Resolved(v) : v \in ResolvedValues} \cup {Rejected(e) : e \in ThrownErrors}

\* what graphqlClient.query does: it rejects, or it resolves with a response
\* whose body has an errors list (possibly empty) and a data member
GraphQLErrorLists == {<<>>, <<"Field error">>, <<"Field error", "Throttled">>}

TransportOutcomes ==
    {[kind |-> "reject", error |-> Some(e), errors |-> <<>>, data |-> None] :
        e \in ThrownErrors}
    \cup
    {[kind |-> "respond", error |-> None, errors |-> errs, data |-> Some(d)] :
        errs \in GraphQLErrorLists, d \in {JsNull, PlainObject("data")}}

\* the thunk of makeGraphQLCall, applied to what the transport did
GraphQLThunk(t) ==
    IF t.kind = "reject" THEN Rejected(t.error[1])
    ELSE IF Len(t.errors) > 0
         THEN Rejected(PlainError("GraphQL Error: " \o Join(t.errors)))
         ELSE Resolved(t.data[1])

Operation(kind) == IF kind = "graphql" THEN "GraphQL query" ELSE "test operation"

(***************************************************************************)
(* makeApiCall and its helpers.                                            *)
(***************************************************************************)
IsClientErrorAbove400(error) ==
    error.hasResponse /\ error.status > 400 /\ error.status < 500

IsClientErrorBelow499(error) ==
    error.hasResponse /\ error.status >= 400 /\ error.status < 499

IsClientError(error) ==
    error.hasResponse /\ error.status >= 400 /\ error.status < 500

CreateShopifyApiErrorNoResponse(error, operation) ==
    LET hasStatus == error # None /\ error[1].hasResponse
        message   == IF error # None /\ error[1].message # ""
                     THEN error[1].message ELSE "Unknown API error"
    IN  ShopifyApiError(operation \o " failed: " \o message,
                        hasStatus,
                        IF hasStatus THEN error[1].status ELSE 0,
                        "none")

\* error is the optional caught error (lastError! may be undefined)
CreateShopifyApiError(error, operation) ==
    LET hasStatus == error # None /\ error[1].hasResponse
        message   == IF error # None /\ error[1].message # ""
                     THEN error[1].message ELSE "Unknown API error"
    IN  ShopifyApiError(operation \o " failed: " \o message,
                        hasStatus,
                        IF hasStatus THEN error[1].status ELSE 0,
                        IF hasStatus THEN error[1].data ELSE "none")

ValidateResponseAnyErrorsKey(response, operation) ==
    IF response.errKind # "absent"
    THEN Some(ShopifyApiError("Shopify API error for " \o operation,
                              FALSE, 0, "none"))
    ELSE None

\* the error validateResponse throws, if any
ValidateResponse(response, operation) ==
    IF ~Truthy(response)
    THEN Some(ShopifyApiError("No response received for " \o operation,
                              FALSE, 0, "none"))
    ELSE IF response.errKind = "array"
            \/ (response.errKind = "string" /\ response.errList[1] # "")
         THEN Some(ShopifyApiError(
                  "Shopify API error for " \o operation \o ": "
                      \o (IF response.errKind = "array"
                          THEN Join(response.errList) ELSE response.errList[1]),
                  FALSE, 0, "none"))
         ELSE None

\* result && typeof result === 'object' && 'body' in result
IsEnvelope(result) == Truthy(result) /\ result.type = "object" /\ result.hasBody

\* the error that reaches the catch block for a thunk outcome, if any
CaughtError(o, operation) ==
    IF o.kind = "reject" THEN o.error
    ELSE IF IsEnvelope(o.value[1])
         THEN LET v == ValidateResponse(o.value[1], operation)
              IN  IF v = None THEN None ELSE Some(AsCaught(v[1]))
         ELSE None

LoopGuardStrict(a, cfg) == a < cfg.maxRetries

\* the loop condition attempt <= this.retryConfig.maxRetries
LoopGuard(a, cfg) == a <= cfg.maxRetries

IsLastAttemptOffByOne(a, cfg) == a + 1 = cfg.maxRetries

\* attempt === this.retryConfig.maxRetries
IsLastAttempt(a, cfg) == a = cfg.maxRetries

BackoffDelayUncapped(cfg, a) == cfg.baseDelay * 2^a

\* Math.min(baseDelay * Math.pow(2, attempt), maxDelay)
BackoffDelay(cfg, a) == Min(cfg.baseDelay * 2^a, cfg.maxDelay)

\* the throw after the loop: createShopifyApiError(lastError!, operation)
ThrowAfterLoop(err) ==
    /\ pc' = "thrown"
    /\ callError' = Some(CreateShopifyApiError(err, Operation(callKind')))

StartCall(kind) ==
    /\ pc = "idle"
    /\ callKind' = kind
    /\ attempt' = 0
    /\ IF LoopGuard(0, retryConfig)
       THEN pc' = "run" /\ callError' = callError
       ELSE ThrowAfterLoop(lastError)
    /\ UNCHANGED <<retryConfig, lastError, outcomes, delays, callResult>>
    /\ UNCHANGED exceptCall

\* one pass through the try/catch of the loop body, for thunk outcome o;
\* gqlErrors is the error list of the GraphQL response behind it
Settle(o, gqlErrors) ==
    LET caught == CaughtError(o, Operation(callKind))
    IN  /\ outcomes' = Append(outcomes, [thunk |-> o, gqlErrors |-> gqlErrors])
        /\ IF caught = None
           THEN /\ pc' = "returned"
                /\ callResult' = o.value
                /\ UNCHANGED <<lastError, delays, callError>>
           ELSE /\ lastError' = caught
                /\ callResult' = callResult
                /\ IF IsClientError(caught[1])
                   THEN /\ pc' = "thrown"
                        /\ callError' = Some(CreateShopifyApiError(
                                                caught, Operation(callKind)))
                        /\ delays' = delays
                   ELSE IF IsLastAttempt(attempt, retryConfig)
                        THEN /\ pc' = "thrown"
                             /\ callError' = Some(CreateShopifyApiError(
                                                caught, Operation(callKind)))
                             /\ delays' = delays
                        ELSE /\ pc' = "sleeping"
                             /\ delays' = Append(delays,
                                            BackoffDelay(retryConfig, attempt))
                             /\ callError' = callError
        /\ UNCHANGED <<retryConfig, callKind, attempt>>
        /\ UNCHANGED exceptCall

InvokeApiThunk ==
    /\ pc = "run"
    /\ callKind = "api"
    /\ \E o \in ApiThunkOutcomes : Settle(o, <<>>)

InvokeGraphQLThunk ==
    /\ pc = "run"
    /\ callKind = "graphql"
    /\ \E t \in TransportOutcomes : Settle(GraphQLThunk(t), t.errors)

SleepDoneRestart ==
    /\ pc = "sleeping"
    /\ attempt' = 0
    /\ pc' = "run"
    /\ outcomes' = <<>>
    /\ delays' = <<>>
    /\ UNCHANGED <<retryConfig, callKind, lastError, callResult, callError>>
    /\ UNCHANGED exceptCall

\* the sleep is over: attempt++ and the loop condition
SleepDone ==
    /\ pc = "sleeping"
    /\ attempt' = attempt + 1
    /\ callKind' = callKind
    /\ IF LoopGuard(attempt + 1, retryConfig)
       THEN pc' = "run" /\ callError' = callError
       ELSE ThrowAfterLoop(lastError)
    /\ UNCHANGED <<retryConfig, lastError, outcomes, delays, callResult>>
    /\ UNCHANGED exceptCall

ProxyIdle ==
    /\ revision = "client"
    /\ nodeEnv = "development"
    /\ hpc = "idle"
    /\ userId = None
    /\ customerData = None
    /\ lookups = <<>>
    /\ results = <<>>
    /\ responses = <<>>

InitCall ==
    /\ retryConfig \in RetryConfigs
    /\ callKind = "api"
    /\ pc = "idle"
    /\ attempt = 0
    /\ lastError = None
    /\ outcomes = <<>>
    /\ delays = <<>>
    /\ callResult = None
    /\ callError = None
    /\ ProxyIdle
    /\ ServicesIdle
    /\ ProviderIdle
    /\ SeederIdle
    /\ CallsIdle
    /\ IdsIdle
    /\ ByIdsIdle

NextCall ==
    \/ \E kind \in {"api", "graphql"} : StartCall(kind)
    \/ InvokeApiThunk
    \/ InvokeGraphQLThunk
    \/ SleepDone

SpecCall == InitCall /\ [][NextCall]_vars

\* every invocation of the thunk settles and every sleep ends
SpecCallFair ==
    /\ SpecCall
    /\ WF_vars(InvokeApiThunk \/ InvokeGraphQLThunk \/ SleepDone)

(***************************************************************************)
(* Strings of the request path.  A string that the code parses is a        *)
(* sequence of characters; a literal that is only passed along is a        *)
(* sequence holding it as one piece.  '' is the empty sequence.            *)
(***************************************************************************)
MaxIdLen == 3

Chars == {"1", "a", " ", "."}

Digits == {"0", "1", "2", "3", "4", "5", "6", "7", "8", "9"}

DigitValue(c) ==
    CASE c = "0" -> 0 [] c = "1" -> 1 [] c = "2" -> 2 [] c = "3" -> 3
      [] c = "4" -> 4 [] c = "5" -> 5 [] c = "6" -> 6 [] c = "7" -> 7
      [] c = "8" -> 8 [] c = "9" -> 9

Strings(n) == UNION {[1..k -> Chars] : k \in 0..n}

\* String.prototype.trim, for the white space of Chars
RECURSIVE TrimStart(_)
TrimStart(s) ==
    IF s # <<>> /\ Head(s) = " " THEN TrimStart(Tail(s)) ELSE s

RECURSIVE TrimEnd(_)
TrimEnd(s) ==
    IF s # <<>> /\ s[Len(s)] = " " THEN TrimEnd(SubSeq(s, 1, Len(s) - 1)) ELSE s

Trim(s) == TrimEnd(TrimStart(s))

\* a JavaScript number: NaN, or an integer value
NaN == [nan |-> TRUE, val |-> 0]
Num(n) == [nan |-> FALSE, val |-> n]
NumTruthy(x) == ~x.nan /\ x.val # 0

\* the longest prefix of digits
RECURSIVE DigitPrefix(_)
DigitPrefix(s) ==
    IF s # <<>> /\ Head(s) \in Digits
    THEN <<Head(s)>> \o DigitPrefix(Tail(s))
    ELSE <<>>

RECURSIVE DecimalValue(_)
DecimalValue(ds) ==
    IF ds = <<>> THEN 0
    ELSE 10 * DecimalValue(SubSeq(ds, 1, Len(ds) - 1)) + DigitValue(ds[Len(ds)])

\* parseInt(s, 10): leading white space, an optional sign, then digits
ParseInt(s) ==
    LET t    == TrimStart(s)
        neg  == t # <<>> /\ Head(t) = "-"
        body == IF t # <<>> /\ Head(t) \in {"-", "+"} THEN Tail(t) ELSE t
        ds   == DigitPrefix(body)
    IN  IF ds = <<>> THEN NaN
        ELSE Num(IF neg THEN 0 - DecimalValue(ds) ELSE DecimalValue(ds))

\* isNaN(Number(s)) for strings of signs, digits, dots and white space and
\* other characters: Number trims, reads '' as 0, and otherwise wants a
\* decimal literal (digits with at most one dot and at least one digit)
NumberIsNaN(s) ==
    LET t    == Trim(s)
        body == IF t # <<>> /\ Head(t) \in {"-", "+"} THEN Tail(t) ELSE t
        dots == {i \in 1..Len(body) : body[i] = "."}
    IN  IF t = <<>> THEN FALSE
        ELSE ~(/\ \A i \in 1..Len(body) : body[i] \in Digits \cup {"."}
               /\ Cardinality(dots) <= 1
               /\ \E i \in 1..Len(body) : body[i] \in Digits)

(***************************************************************************)
(* req.query.user_id: absent, a string, or (a repeated parameter) an array *)
(***************************************************************************)
QueryString(s) == [type |-> "string", chars |-> s]
QueryArray == [type |-> "array", chars |-> <<>>]

UserIds ==
    {None} \cup {Some(QueryString(s)) : s \in Strings(MaxIdLen)}
           \cup {Some(QueryArray)}

\* !user_id
UserIdFalsy(q) == q = None \/ (q[1].type = "string" /\ q[1].chars = <<>>)

ValidateUserIdNonEmptyOnly(q) ==
    /\ q # None
    /\ q[1].type = "string"
    /\ Len(Trim(q[1].chars)) > 0

\* validateUserId of ../types
ValidateUserId(q) ==
    /\ q # None
    /\ q[1].type = "string"
    /\ Len(Trim(q[1].chars)) > 0
    /\ ~NumberIsNaN(q[1].chars)

(***************************************************************************)
(* Products.                                                               *)
(***************************************************************************)
ProductData(id, title, handle, price, image) ==
    [id |-> id, title |-> title, handle |-> handle, price |-> price,
     image_url |-> image, available |-> TRUE]

Product456 ==
    ProductData(456, <<"Test Product">>, <<"test-product">>, <<"19.99">>,
                Some(<<"https://x/product.jpg">>))

Product789 ==
    ProductData(789, <<"Default Product">>, <<"default-product">>,
                <<"29.99">>, None)

\* x || d for an optional string
OrElse(x, d) == IF x = None \/ x[1] = <<>> THEN d ELSE x[1]

AssignedProduct(p) ==
    [id |-> p.id, title |-> p.title, image_url |-> OrElse(p.image_url, <<>>),
     price |-> p.price, handle |-> p.handle]

GetDefaultProductDataUntitled ==
    [id |-> 0, title |-> <<>>, image_url |-> <<>>,
     price |-> <<"0.00">>, handle |-> <<"featured-product">>]

\* ProductService.getDefaultProductData
GetDefaultProductData ==
    [id |-> 0, title |-> <<"Featured Product">>, image_url |-> <<>>,
     price |-> <<"0.00">>, handle |-> <<"featured-product">>]

\* what a lookup gives its caller: a value, null, or a thrown error
Found(v) == [kind |-> "value", value |-> Some(v), message |-> ""]
Absent == [kind |-> "null", value |-> None, message |-> ""]
Throws(msg) == [kind |-> "throw", value |-> None, message |-> msg]

\* ProductService.getProductById, as seen by its callers
ProductByIdResults ==
    {Found(Product456), Found(Product789), Absent, Throws("Service error")}

\* ProductService.getAssignedProduct on the result of getProductById
GetAssignedProduct(r) ==
    IF r.kind = "value" THEN Found(AssignedProduct(r.value[1])) ELSE r

\* the product list query behind getDefaultProduct: a list, or a failure
DefaultProductQueries ==
    {[failed |-> FALSE, products |-> <<>>],
     [failed |-> FALSE, products |-> <<Product789>>],
     [failed |-> FALSE, products |-> <<Product456, Product789>>],
     [failed |-> TRUE, products |-> <<>>]}

GetDefaultProductLast(q) ==
    IF q.failed \/ Len(q.products) = 0 THEN Absent
    ELSE Found(AssignedProduct(q.products[Len(q.products)]))

\* ProductService.getDefaultProduct: never throws
GetDefaultProduct(q) ==
    IF q.failed \/ Len(q.products) = 0 THEN Absent
    ELSE Found(AssignedProduct(q.products[1]))

(***************************************************************************)
(* Customers.                                                              *)
(***************************************************************************)
CustomerRecord(first, image, productId, product) ==
    [first_name |-> first, profile_image_url |-> image,
     assigned_product_id |-> productId, assigned_product |-> product]

\* CustomerService.getCustomerById of the service based revision, as seen
\* by the handler: CustomerData, null or a thrown error
CustomerByIdResults ==
    {Found(CustomerRecord(f, i, a, None)) :
        f \in {<<>>, <<"John">>},
        i \in {None, Some(<<>>), Some(<<"https://x/img.jpg">>)},
        a \in {None, Some(Num(0)), Some(Num(456))}}
    \cup {Absent, Throws("Service error")}

\* the customer query of the provider based revision: makeGraphQLCall
\* throws, or gives data whose customer is null or has metafield edges
MetafieldNode(key, value) == [key |-> key, value |-> value]

MetafieldEdgeLists ==
    {<<>>,
     <<MetafieldNode("profile_image_url", <<"https://x/img.jpg">>)>>,
     <<MetafieldNode("assigned_product_id", <<"4", "5", "6">>)>>,
     <<MetafieldNode("profile_image_url", <<"https://x/img.jpg">>),
       MetafieldNode("assigned_product_id", <<"4", "5", "6">>)>>,
     <<MetafieldNode("assigned_product_id", <<"a">>)>>,
     <<MetafieldNode("assigned_product_id", <<>>)>>,
     <<MetafieldNode("profile_image_url", <<"https://x/img.jpg">>),
       MetafieldNode("loyalty_tier", <<"gold">>)>>}

CustomerQueryResults ==
    {Found([firstName |-> f, edges |-> e]) :
        f \in {<<>>, <<"John">>}, e \in MetafieldEdgeLists}
    \cup {Absent, Throws("get customer failed: Request failed")}

\* metafields[metafield.key] = metafield.value over the edges, then
\* metafields[key]
RECURSIVE MetafieldValue(_, _)
MetafieldValue(edges, key) ==
    IF edges = <<>> THEN None
    ELSE IF edges[Len(edges)].key = key THEN Some(edges[Len(edges)].value)
    ELSE MetafieldValue(SubSeq(edges, 1, Len(edges) - 1), key)

\* metafields['assigned_product_id'] ? parseInt(..., 10) : undefined
AssignedProductIdOf(edges) ==
    LET v == MetafieldValue(edges, "assigned_product_id")
    IN  IF v = None \/ v[1] = <<>> THEN None ELSE Some(ParseInt(v[1]))

\* the record CustomerService.getCustomerById (provider based) returns
ProviderCustomerRecord(customer, product) ==
    CustomerRecord(customer.firstName,
                   MetafieldValue(customer.edges, "profile_image_url"),
                   AssignedProductIdOf(customer.edges),
                   product)

\* if (customerData.assigned_product_id) / if (assignedProductId)
HasAssignedProductId(c) ==
    c.assigned_product_id # None /\ NumTruthy(c.assigned_product_id[1])

(***************************************************************************)
(* ProxyHandler.handleUserLanding.                                         *)
(***************************************************************************)
FailureWithoutStatus(status, message) ==
    [status |-> 200,
     body |-> [success |-> FALSE, data |-> None, error |-> Some(message)]]

\* res.status(status).json({ success: false, error })
Failure(status, message) ==
    [status |-> status,
     body |-> [success |-> FALSE, data |-> None, error |-> Some(message)]]

NotFoundAsServerError == Failure(500, "Customer not found")

\* if (!customerData): res.status(404).json({ success: false, error })
NotFound == Failure(404, "Customer not found")

\* res.json({ success: true, data })
Success(data) ==
    [status |-> 200,
     body |-> [success |-> TRUE, data |-> Some(data), error |-> None]]

UserProfile(id, first, image, product) ==
    [user_id |-> id, first_name |-> first, profile_image_url |-> image,
     assigned_product |-> product]

CatchResponseBadGateway(rev, env, message) ==
    Failure(502, IF rev = "client" /\ env = "production"
                 THEN "Internal server error" ELSE message)

\* the catch block of the revision
CatchResponse(rev, env, message) ==
    Failure(500, IF rev = "client" /\ env = "production"
                 THEN "Internal server error" ELSE message)

Lookup(op, arg) == [op |-> op, arg |-> arg]

NeedsDefaultProductAlways(product) == TRUE

\* if (!assignedProduct) before getDefaultProduct
NeedsDefaultProduct(product) == product = None

\* if (!assignedProduct) before getDefaultProductData
NeedsFallbackData(product) == product = None

Respond(response) ==
    /\ responses' = Append(responses, response)
    /\ hpc' = "done"

\* from "Fallback to default product data" to res.json, for the customer c
\* and the product found so far; made is the lookups made before
FinishLanding(c, product, made, given) ==
    LET fallback == NeedsFallbackData(product)
        final    == IF fallback THEN Some(GetDefaultProductData) ELSE product
    IN  /\ lookups' = IF fallback
                      THEN Append(made, Lookup("getDefaultProductData", None))
                      ELSE made
        /\ results' = IF fallback
                      THEN Append(given, Found(GetDefaultProductData))
                      ELSE given
        /\ Respond(Success(UserProfile(
               userId[1].chars,
               OrElse(Some(c.first_name), <<"Valued Customer">>),
               Some(OrElse(c.profile_image_url, <<"/assets/default-avatar.png">>)),
               final)))

\* from "Fallback to default product" on
AfterAssignedProduct(c, product, made, given) ==
    IF NeedsDefaultProduct(product)
    THEN /\ lookups' = Append(made, Lookup("getDefaultProduct", None))
         /\ results' = given
         /\ hpc' = "awaitDefault"
         /\ responses' = responses
    ELSE FinishLanding(c, product, made, given)

\* service based revision: from the entry to the await of getCustomerById
HandleUserLanding(q) ==
    /\ revision = "client"
    /\ hpc = "idle"
    /\ userId' = q
    /\ IF UserIdFalsy(q) \/ ~ValidateUserId(q)
       THEN /\ Respond(Failure(400, "Invalid or missing user_id parameter"))
            /\ lookups' = lookups
       ELSE /\ lookups' = Append(lookups,
                   Lookup("getCustomerById", Some(ParseInt(q[1].chars))))
            /\ hpc' = "awaitCustomer"
            /\ responses' = responses
    /\ UNCHANGED <<revision, nodeEnv, customerData, results>>
    /\ UNCHANGED exceptProxy

\* getCustomerById settled with r
CustomerReturned(r) ==
    /\ revision = "client"
    /\ hpc = "awaitCustomer"
    /\ CASE r.kind = "throw" ->
              /\ Respond(CatchResponse(revision, nodeEnv, r.message))
              /\ lookups' = lookups
              /\ results' = Append(results, r)
              /\ customerData' = customerData
         [] r.kind = "null" ->
              /\ Respond(NotFound)
              /\ lookups' = lookups
              /\ results' = Append(results, r)
              /\ customerData' = customerData
         [] r.kind = "value" ->
              /\ customerData' = r.value
              /\ IF HasAssignedProductId(r.value[1])
                 THEN /\ lookups' = Append(lookups,
                             Lookup("getAssignedProduct",
                                    r.value[1].assigned_product_id))
                      /\ results' = Append(results, r)
                      /\ hpc' = "awaitAssigned"
                      /\ responses' = responses
                 ELSE AfterAssignedProduct(r.value[1], None, lookups,
                                           Append(results, r))
    /\ UNCHANGED <<revision, nodeEnv, userId>>
    /\ UNCHANGED exceptProxy

\* getAssignedProduct settled with r
AssignedReturned(r) ==
    /\ revision = "client"
    /\ hpc = "awaitAssigned"
    /\ IF r.kind = "throw"
       THEN /\ Respond(CatchResponse(revision, nodeEnv, r.message))
            /\ lookups' = lookups
            /\ results' = Append(results, r)
       ELSE AfterAssignedProduct(customerData[1], r.value, lookups,
                                 Append(results, r))
    /\ UNCHANGED <<revision, nodeEnv, userId, customerData>>
    /\ UNCHANGED exceptProxy

\* getDefaultProduct settled with r
DefaultReturned(r) ==
    /\ revision = "client"
    /\ hpc = "awaitDefault"
    /\ FinishLanding(customerData[1], r.value, lookups, Append(results, r))
    /\ UNCHANGED <<revision, nodeEnv, userId, customerData>>
    /\ UNCHANGED exceptProxy

\* provider based revision: from the entry to the await of makeGraphQLCall
\* inside CustomerService.getCustomerById
ProviderHandleUserLanding(q) ==
    /\ revision = "provider"
    /\ hpc = "idle"
    /\ userId' = q
    /\ IF UserIdFalsy(q)
       THEN /\ Respond(Failure(400, "Invalid or missing user_id parameter"))
            /\ lookups' = lookups
       ELSE /\ lookups' = Append(lookups, Lookup("getCustomerById", None))
            /\ hpc' = "awaitCustomerQuery"
            /\ responses' = responses
    /\ UNCHANGED <<revision, nodeEnv, customerData, results>>
    /\ UNCHANGED exceptProxy

\* the response of the provider based revision for the record c
ProviderSuccess(c) ==
    Success(UserProfile(userId[1].chars, c.first_name, c.profile_image_url,
                        c.assigned_product))

\* the customer query settled with r: the rest of getCustomerById up to the
\* await of getProductById, or up to the response of the handler
ProviderCustomerQueryReturned(r) ==
    /\ revision = "provider"
    /\ hpc = "awaitCustomerQuery"
    /\ results' = Append(results, r)
    /\ CASE r.kind = "throw" ->
              /\ Respond(CatchResponse(revision, nodeEnv, r.message))
              /\ UNCHANGED <<lookups, customerData>>
         [] r.kind = "null" ->
              /\ Respond(NotFound)
              /\ UNCHANGED <<lookups, customerData>>
         [] r.kind = "value" ->
              LET c == ProviderCustomerRecord(r.value[1], None)
              IN  /\ customerData' = Some(c)
                  /\ IF HasAssignedProductId(c)
                     THEN /\ lookups' = Append(lookups,
                                 Lookup("getProductById", c.assigned_product_id))
                          /\ hpc' = "awaitProductById"
                          /\ responses' = responses
                     ELSE /\ lookups' = lookups
                          /\ Respond(ProviderSuccess(c))
    /\ UNCHANGED <<revision, nodeEnv, userId>>
    /\ UNCHANGED exceptProxy

\* getProductById settled with r: assignedProduct = productData || undefined
ProviderProductReturned(r) ==
    /\ revision = "provider"
    /\ hpc = "awaitProductById"
    /\ results' = Append(results, r)
    /\ IF r.kind = "throw"
       THEN Respond(CatchResponse(revision, nodeEnv, r.message))
       ELSE Respond(ProviderSuccess(
                [customerData[1] EXCEPT !.assigned_product = r.value]))
    /\ UNCHANGED <<revision, nodeEnv, userId, customerData, lookups>>
    /\ UNCHANGED exceptProxy

CallIdle ==
    /\ retryConfig = [maxRetries |-> 3, baseDelay |-> 1000, maxDelay |-> 10000]
    /\ callKind = "api"
    /\ pc = "idle"
    /\ attempt = 0
    /\ lastError = None
    /\ outcomes = <<>>
    /\ delays = <<>>
    /\ callResult = None
    /\ callError = None

InitProxy ==
    /\ revision \in {"client", "provider"}
    /\ nodeEnv \in {"production", "development"}
    /\ hpc = "idle"
    /\ userId = None
    /\ customerData = None
    /\ lookups = <<>>
    /\ results = <<>>
    /\ responses = <<>>
    /\ CallIdle
    /\ ServicesIdle
    /\ ProviderIdle
    /\ SeederIdle
    /\ CallsIdle
    /\ IdsIdle
    /\ ByIdsIdle

NextProxy ==
    \/ \E q \in UserIds : HandleUserLanding(q)
    \/ \E r \in CustomerByIdResults : CustomerReturned(r)
    \/ \E r \in ProductByIdResults : AssignedReturned(GetAssignedProduct(r))
    \/ \E q \in DefaultProductQueries : DefaultReturned(GetDefaultProduct(q))
    \/ \E q \in UserIds : ProviderHandleUserLanding(q)
    \/ \E r \in CustomerQueryResults : ProviderCustomerQueryReturned(r)
    \/ \E r \in ProductByIdResults : ProviderProductReturned(r)

SpecProxy == InitProxy /\ [][NextProxy]_vars

(***************************************************************************)
(* toGraphQLId and toRestId.  Strings are sequences of characters.  An     *)
(* integer number is written by its decimal digits, so that numbers of     *)
(* any size can be told apart; NotANumber is NaN.                          *)
(***************************************************************************)
MaxDigits == 2
MaxTypeLen == 2

RECURSIVE Zeros(_)
Zeros(k) == IF k = 0 THEN <<>> ELSE <<"0">> \o Zeros(k - 1)

Integer(digits) == [nan |-> FALSE, digits |-> digits]
NotANumber == [nan |-> TRUE, digits |-> <<>>]

\* non-negative integers: the small ones, and 1e20, 7e20, 1e21, 7e21
NonNegativeIntegers ==
    {Integer(<<"0">>)}
    \cup {Integer(d) : d \in {x \in UNION {[1..k -> {"0", "1", "7"}] :
                                           k \in 1..MaxDigits} : x[1] # "0"}}
    \cup {Integer(<<d>> \o Zeros(k)) : d \in {"1", "7"}, k \in {20, 21}}

ResourceTypes ==
    UNION {[1..k -> {"C", "/", "1"}] : k \in 0..MaxTypeLen}
        \cup {<<"C", "u", "s", "t", "o", "m", "e", "r">>}

\* the decimal digits of a natural number
RECURSIVE ToDigits(_)
ToDigits(k) ==
    IF k < 10 THEN <<CHOOSE c \in Digits : DigitValue(c) = k>>
    ELSE ToDigits(k \div 10) \o ToDigits(k % 10)

RECURSIVE StripTrailingZeros(_)
StripTrailingZeros(ds) ==
    IF ds # <<>> /\ ds[Len(ds)] = "0"
    THEN StripTrailingZeros(SubSeq(ds, 1, Len(ds) - 1))
    ELSE ds

\* Number.prototype.toString of a non-negative integer: decimal digits
\* below 1e21, exponent notation from 1e21 on
NumberToString(n) ==
    IF Len(n.digits) <= 21 THEN n.digits
    ELSE LET fraction == StripTrailingZeros(Tail(n.digits))
         IN  <<Head(n.digits)>>
                 \o (IF fraction = <<>> THEN <<>> ELSE <<".">> \o fraction)
                 \o <<"e", "+">> \o ToDigits(Len(n.digits) - 1)

\* `gid://shopify/${resourceType}/${restId}`
ToGraphQLId(n, type) ==
    <<"g", "i", "d", ":", "/", "/", "s", "h", "o", "p", "i", "f", "y", "/">>
        \o type \o <<"/">> \o NumberToString(n)

\* String.prototype.split('/')
RECURSIVE Split(_)
Split(str) ==
    IF \A i \in 1..Len(str) : str[i] # "/" THEN <<str>>
    ELSE LET i == CHOOSE k \in 1..Len(str) :
                      str[k] = "/" /\ \A l \in 1..(k - 1) : str[l] # "/"
         IN  <<SubSeq(str, 1, i - 1)>> \o Split(SubSeq(str, i + 1, Len(str)))

RECURSIVE StripLeadingZeros(_)
StripLeadingZeros(ds) ==
    IF Len(ds) > 1 /\ Head(ds) = "0" THEN StripLeadingZeros(Tail(ds)) ELSE ds

\* parseInt(str, 10) of a string without sign: leading white space, then
\* the longest run of digits
ParseIntDigits(str) ==
    LET ds == DigitPrefix(TrimStart(str))
    IN  IF ds = <<>> THEN NotANumber ELSE Integer(StripLeadingZeros(ds))

\* toRestId: the number returned, or the error thrown
ToRestId(str) ==
    LET parts == Split(str)
        id    == parts[Len(parts)]
    IN  IF id = <<>>
        THEN [threw |-> TRUE, value |-> None]
        ELSE [threw |-> FALSE, value |-> Some(ParseIntDigits(id))]

\* strings handed to toRestId directly
GraphQLIds ==
    UNION {[1..k -> {"/", "1", "a"}] : k \in 0..(MaxTypeLen + 1)}

\* toGraphQLId(n, type) is called
CallToGraphQLId(n, type) ==
    /\ ipc = "idle"
    /\ restId' = Some(n)
    /\ resourceType' = type
    /\ graphqlId' = Some(ToGraphQLId(n, type))
    /\ ipc' = "converted"
    /\ idOutcome' = idOutcome
    /\ UNCHANGED exceptIds

\* toRestId is called on the string toGraphQLId gave
CallToRestIdOnResult ==
    /\ ipc = "converted"
    /\ idOutcome' = Some(ToRestId(graphqlId[1]))
    /\ ipc' = "done"
    /\ UNCHANGED <<restId, resourceType, graphqlId>>
    /\ UNCHANGED exceptIds

\* toRestId(str) is called on a string of the caller
CallToRestId(str) ==
    /\ ipc = "idle"
    /\ graphqlId' = Some(str)
    /\ idOutcome' = Some(ToRestId(str))
    /\ ipc' = "done"
    /\ UNCHANGED <<restId, resourceType>>
    /\ UNCHANGED exceptIds

InitIds ==
    /\ IdsIdle
    /\ ByIdsIdle
    /\ CallIdle
    /\ ProxyIdle
    /\ ServicesIdle
    /\ ProviderIdle
    /\ SeederIdle
    /\ CallsIdle

NextIds ==
    \/ \E n \in NonNegativeIntegers : \E type \in ResourceTypes :
          CallToGraphQLId(n, type)
    \/ CallToRestIdOnResult
    \/ \E str \in GraphQLIds : CallToRestId(str)

SpecIds == InitIds /\ [][NextIds]_vars

(***************************************************************************)
(* CustomerService.getCustomerById and ProductService.getDefaultProduct.   *)
(* The provider call a method awaits either gives a response or raises;    *)
(* an error message is a sequence of pieces, so that message.includes can  *)
(* be computed.                                                            *)
(***************************************************************************)
ApiError(name, message, hasStatus, status) ==
    [name |-> name, message |-> message, hasStatusCode |-> hasStatus,
     statusCode |-> status]

\* the terminal errors of makeApiCall / makeGraphQLCall, and a TypeError
UpstreamErrors ==
    {ApiError("ShopifyApiError", <<"get customer 1 failed: ", "Not Found">>,
              TRUE, 404),
     ApiError("ShopifyApiError", <<"get customer 1 failed: ", "Customer ",
              "not found">>, TRUE, 404),
     ApiError("ShopifyApiError", <<"Server error">>, TRUE, 500),
     ApiError("ShopifyApiError", <<"get customer 1 failed: ", "Access token ",
              "not found">>, TRUE, 401),
     ApiError("ShopifyApiError", <<"get customer 1 failed: ", "Network down">>,
              FALSE, 0),
     ApiError("TypeError", <<"Cannot read properties of undefined">>,
              FALSE, 0)}

Gives(response) == [kind |-> "gives", response |-> Some(response), error |-> None]
Raises(e) == [kind |-> "raises", response |-> None, error |-> Some(e)]

\* what a method gives its caller
Returned(v) == [kind |-> "value", value |-> Some(v), error |-> None]
ReturnedNull == [kind |-> "null", value |-> None, error |-> None]
Raised(e) == [kind |-> "throw", value |-> None, error |-> Some(e)]

\* String.prototype.includes, on the pieces of a message
Includes(message, piece) == \E i \in 1..Len(message) : message[i] = piece

\* REST responses of customers/{id}: body.customer may be missing
RestCustomerResponses ==
    {[hasBody |-> TRUE, customer |-> Some([first_name |-> f])] :
        f \in {<<>>, <<"John">>}}
    \cup {[hasBody |-> TRUE, customer |-> None],
          [hasBody |-> FALSE, customer |-> None]}

RestCustomerOutcomes ==
    {Gives(r) : r \in RestCustomerResponses}
        \cup {Raises(e) : e \in UpstreamErrors}

\* REST responses of customers/{id}/metafields
Metafield(namespace, key, value) ==
    [namespace |-> namespace, key |-> key, value |-> value]

RestMetafieldLists ==
    {<<>>,
     <<Metafield("personalization", "profile_image_url", <<"https://x/img.jpg">>)>>,
     <<Metafield("personalization", "assigned_product_id", <<"4", "5", "6">>)>>,
     <<Metafield("personalization", "profile_image_url", <<"https://x/img.jpg">>),
       Metafield("personalization", "assigned_product_id", <<"4", "5", "6">>)>>,
     <<Metafield("custom", "assigned_product_id", <<"7">>)>>,
     <<Metafield("personalization", "loyalty_tier", <<"gold">>)>>,
     <<Metafield("personalization", "profile_image_url", <<"https://x/img.jpg">>),
       Metafield("custom", "profile_image_url", <<"https://x/other.jpg">>),
       Metafield("personalization", "loyalty_tier", <<"gold">>)>>}

RestMetafieldOutcomes ==
    {Gives([hasMetafields |-> TRUE, metafields |-> l]) : l \in RestMetafieldLists}
        \cup {Gives([hasMetafields |-> FALSE, metafields |-> <<>>])}
        \cup {Raises(e) : e \in UpstreamErrors}

IsPersonalizationAlways(metafield) == TRUE

\* metafield.namespace === 'personalization'
IsPersonalization(metafield) == metafield.namespace = "personalization"

\* CustomerService.parseMetafields
RECURSIVE ParseMetafields(_)
ParseMetafields(metafields) ==
    IF metafields = <<>>
    THEN [profile_image_url |-> None, assigned_product_id |-> None]
    ELSE LET rest == ParseMetafields(SubSeq(metafields, 1, Len(metafields) - 1))
             last == metafields[Len(metafields)]
         IN  IF ~IsPersonalization(last) THEN rest
             ELSE IF last.key = "profile_image_url"
                  THEN [rest EXCEPT !.profile_image_url = Some(last.value)]
             ELSE IF last.key = "assigned_product_id"
                  THEN [rest EXCEPT !.assigned_product_id = Some(last.value)]
             ELSE rest

GetCustomerMetafieldsThrowing(o) ==
    IF o.kind = "raises" THEN Raised(o.error[1])
    ELSE Returned(ParseMetafields(o.response[1].metafields))

\* CustomerService.getCustomerMetafields (REST), on what makeApiCall did:
\* the catch block gives {}
GetCustomerMetafields(o) ==
    IF o.kind = "raises" THEN Returned(ParseMetafields(<<>>))
    ELSE Returned(ParseMetafields(o.response[1].metafields))

\* the record the REST getCustomerById returns
RestCustomerRecord(customer, metafields) ==
    CustomerRecord(customer.first_name,
                   metafields.profile_image_url,
                   IF \/ metafields.assigned_product_id = None
                      \/ metafields.assigned_product_id[1] = <<>>
                   THEN None
                   ELSE Some(ParseInt(metafields.assigned_product_id[1])),
                   None)

RestNotFoundNever(e) == FALSE

\* error instanceof ShopifyApiError && error.statusCode === 404
RestNotFound(e) ==
    e.name = "ShopifyApiError" /\ e.hasStatusCode /\ e.statusCode = 404

\* error instanceof Error && error.message.includes('not found')
GraphQLNotFound(e) == Includes(e.message, "not found")

\* the catch block of getCustomerById in the REST and GraphQL revisions
CatchCustomerError(rev, e) ==
    IF rev = "rest" /\ RestNotFound(e) THEN ReturnedNull
    ELSE IF rev = "graphql" /\ GraphQLNotFound(e) THEN ReturnedNull
    ELSE Raised(e)

\* responses of makeGraphQLCall for the customer query: the data itself, or
\* a traditional response with data or with errors
CustomerNodes ==
    {[firstName |-> f, edges |-> e] :
        f \in {<<>>, <<"John">>}, e \in MetafieldEdgeLists}

GraphQLCustomerResponses ==
    {[form |-> "direct", customer |-> c, errors |-> <<>>] :
        c \in {None} \cup {Some(n) : n \in CustomerNodes}}
    \cup {[form |-> "wrapped", customer |-> None, errors |-> <<>>],
          [form |-> "errors", customer |-> None,
           errors |-> <<"Field 'tags' ", "not found">>],
          [form |-> "errors", customer |-> None,
           errors |-> <<"Throttled">>],
          [form |-> "nodata", customer |-> None, errors |-> <<>>]}

GraphQLCustomerOutcomes ==
    {Gives(r) : r \in GraphQLCustomerResponses}
        \cup {Raises(e) : e \in UpstreamErrors}

\* extractGraphQLData: the data, or the error it throws
ExtractGraphQLData(response) ==
    IF response.form \in {"direct", "wrapped"} THEN Returned(response.customer)
    ELSE IF response.form = "errors"
         THEN Raised(ApiError("Error", <<"GraphQL Error: ">> \o response.errors,
                              FALSE, 0))
         ELSE Raised(ApiError("Error", <<"No data returned from GraphQL query">>,
                              FALSE, 0))

\* makeGraphQLCall of the provider based revision gives the data itself
ProviderCustomerOutcomes ==
    {Gives(r) : r \in {x \in GraphQLCustomerResponses : x.form = "direct"}}
        \cup {Raises(e) : e \in UpstreamErrors}

Call(name, o) == [call |-> name, outcome |-> o]

Finish(outcome) ==
    /\ svcOutcome' = Some(outcome)
    /\ spc' = "done"

\* entry of getCustomerById up to the await of the customer call
GetCustomerById(rev) ==
    /\ spc = "idle"
    /\ svcOp' = "getCustomerById"
    /\ svcRevision' = rev
    /\ spc' = "awaitCustomer"
    /\ UNCHANGED <<upstream, svcCustomer, svcOutcome>>
    /\ UNCHANGED exceptServices

\* REST revision: the customer call settled with o
RestCustomerSettled(o) ==
    /\ svcOp = "getCustomerById" /\ svcRevision = "rest"
    /\ spc = "awaitCustomer"
    /\ upstream' = Append(upstream, Call("get customer", o))
    /\ IF o.kind = "raises"
       THEN Finish(CatchCustomerError("rest", o.error[1]))
            /\ svcCustomer' = svcCustomer
       ELSE IF o.response[1].customer = None
            THEN Finish(ReturnedNull) /\ svcCustomer' = svcCustomer
            ELSE /\ svcCustomer' = o.response[1].customer
                 /\ spc' = "awaitMetafields"
                 /\ svcOutcome' = svcOutcome
    /\ UNCHANGED <<svcOp, svcRevision>>
    /\ UNCHANGED exceptServices

\* REST revision: the metafields call settled with o
RestMetafieldsSettled(o) ==
    /\ svcOp = "getCustomerById" /\ svcRevision = "rest"
    /\ spc = "awaitMetafields"
    /\ upstream' = Append(upstream, Call("get customer metafields", o))
    /\ LET m == GetCustomerMetafields(o)
       IN  IF m.kind = "throw"
           THEN Finish(CatchCustomerError("rest", m.error[1]))
           ELSE Finish(Returned(RestCustomerRecord(svcCustomer[1], m.value[1])))
    /\ UNCHANGED <<svcOp, svcRevision, svcCustomer>>
    /\ UNCHANGED exceptServices

\* GraphQL revision: the customer query settled with o
GraphQLCustomerSettled(o) ==
    /\ svcOp = "getCustomerById" /\ svcRevision = "graphql"
    /\ spc = "awaitCustomer"
    /\ upstream' = Append(upstream, Call("get customer", o))
    /\ IF o.kind = "raises"
       THEN Finish(CatchCustomerError("graphql", o.error[1]))
            /\ svcCustomer' = svcCustomer
       ELSE LET data == ExtractGraphQLData(o.response[1])
            IN  IF data.kind = "throw"
                THEN Finish(CatchCustomerError("graphql", data.error[1]))
                     /\ svcCustomer' = svcCustomer
                ELSE IF data.value[1] = None
                THEN Finish(ReturnedNull) /\ svcCustomer' = svcCustomer
                ELSE /\ svcCustomer' = data.value[1]
                     /\ Finish(Returned(
                            ProviderCustomerRecord(data.value[1][1], None)))
    /\ UNCHANGED <<svcOp, svcRevision>>
    /\ UNCHANGED exceptServices

\* provider based revision: the customer query settled with o
ProviderCustomerSettled(o) ==
    /\ svcOp = "getCustomerById" /\ svcRevision = "provider"
    /\ spc = "awaitCustomer"
    /\ upstream' = Append(upstream, Call("get customer", o))
    /\ IF o.kind = "raises"
       THEN Finish(Raised(o.error[1])) /\ svcCustomer' = svcCustomer
       ELSE IF o.response[1].customer = None
       THEN Finish(ReturnedNull) /\ svcCustomer' = svcCustomer
       ELSE LET c == ProviderCustomerRecord(o.response[1].customer[1], None)
            IN  /\ svcCustomer' = o.response[1].customer
                /\ IF HasAssignedProductId(c)
                   THEN spc' = "awaitProduct" /\ svcOutcome' = svcOutcome
                   ELSE Finish(Returned(c))
    /\ UNCHANGED <<svcOp, svcRevision>>
    /\ UNCHANGED exceptServices

\* provider based revision: getProductById settled with r
ProviderProductSettled(r) ==
    /\ svcOp = "getCustomerById" /\ svcRevision = "provider"
    /\ spc = "awaitProduct"
    /\ upstream' = Append(upstream, Call("get product", r))
    /\ IF r.kind = "throw"
       THEN Finish(Raised(ApiError("Error", <<r.message>>, FALSE, 0)))
       ELSE Finish(Returned(ProviderCustomerRecord(svcCustomer[1], r.value)))
    /\ UNCHANGED <<svcOp, svcRevision, svcCustomer>>
    /\ UNCHANGED exceptServices

\* responses of the product list query of getDefaultProduct; invalid is a
\* response that validateResponse / extractGraphQLData rejects
ProductListResponses ==
    {[invalid |-> FALSE, products |-> ps] :
        ps \in {<<>>, <<Product789>>, <<Product456, Product789>>}}
    \cup {[invalid |-> TRUE, products |-> <<>>]}

DefaultProductOutcomes ==
    {Gives(r) : r \in ProductListResponses}
        \cup {Raises(e) : e \in UpstreamErrors}

\* the try block of getDefaultProduct up to the product list
ProductQuery(o) ==
    [failed   |-> o.kind = "raises" \/ o.response[1].invalid,
     products |-> IF o.kind = "gives" THEN o.response[1].products ELSE <<>>]

\* entry of getDefaultProduct up to the await of the product list query
CallGetDefaultProduct(rev) ==
    /\ spc = "idle"
    /\ svcOp' = "getDefaultProduct"
    /\ svcRevision' = rev
    /\ spc' = "awaitProducts"
    /\ UNCHANGED <<upstream, svcCustomer, svcOutcome>>
    /\ UNCHANGED exceptServices

\* the product list query settled with o
DefaultProductSettled(o) ==
    /\ svcOp = "getDefaultProduct"
    /\ spc = "awaitProducts"
    /\ upstream' = Append(upstream, Call("get default product", o))
    /\ Finish(GetDefaultProduct(ProductQuery(o)))
    /\ UNCHANGED <<svcOp, svcRevision, svcCustomer>>
    /\ UNCHANGED exceptServices

(***************************************************************************)
(* ProductService.getProductById in its REST and GraphQL revisions.  A     *)
(* product of the shop has a status and variants; a variant has a price    *)
(* and may say whether it is available for sale.  The REST revision finds  *)
(* the product under body.product, the GraphQL revision under              *)
(* data.product with the id as a global id.                                *)
(***************************************************************************)
Variant(price, availableForSale) ==
    [price |-> price, availableForSale |-> availableForSale]

ProductId == Integer(<<"4", "5", "6">>)

ShopifyProducts ==
    {[id |-> ProductId, title |-> t, status |-> s, variants |-> vs] :
        t \in {None, Some(<<"Test Product">>)},
        s \in {"ACTIVE", "DRAFT"},
        vs \in {None, Some(<<>>),
                Some(<<Variant(<<"19.99">>, Some(TRUE))>>),
                Some(<<Variant(<<"19.99">>, Some(FALSE))>>),
                Some(<<Variant(<<"19.99">>, None)>>),
                Some(<<Variant(<<"19.99">>, Some(FALSE)),
                       Variant(<<"29.99">>, Some(TRUE))>>)}}

\* what the product call gave: a response with or without the product, or
\* an error (a response that fails validateResponse raises one too)
ProductOutcomes ==
    {Gives([product |-> Some(p)]) : p \in ShopifyProducts}
        \cup {Gives([product |-> None])}
        \cup {Raises(e) : e \in UpstreamErrors}

\* transformProductData of the REST revision; available is absent when
\* product.variants is
TransformProductData(product) ==
    LET hasVariant == product.variants # None /\ Len(product.variants[1]) > 0
    IN  [id        |-> product.id,
         title     |-> OrElse(product.title, <<"Untitled Product">>),
         price     |-> IF hasVariant THEN product.variants[1][1].price
                       ELSE <<"0.00">>,
         available |-> IF product.variants = None THEN None
                       ELSE Some(hasVariant)]

\* transformGraphQLProductData: variant is product.variants?.edges?.[0]?.node
TransformGraphQLProductData(product) ==
    LET hasVariant == product.variants # None /\ Len(product.variants[1]) > 0
    IN  [id        |-> ToRestId(ToGraphQLId(product.id,
                           <<"P", "r", "o", "d", "u", "c", "t">>)).value[1],
         title     |-> OrElse(product.title, <<"Untitled Product">>),
         price     |-> IF hasVariant THEN product.variants[1][1].price
                       ELSE <<"0.00">>,
         available |-> Some(product.status = "ACTIVE"
                            /\ hasVariant
                            /\ product.variants[1][1].availableForSale
                                   = Some(TRUE))]

\* the catch block of getProductById in the REST and GraphQL revisions
CatchProductError(rev, e) ==
    IF rev = "rest" /\ RestNotFound(e) THEN ReturnedNull
    ELSE IF rev = "graphql" /\ GraphQLNotFound(e) THEN ReturnedNull
    ELSE Raised(e)

\* getProductById once the product call settled with o
ProductById(rev, o) ==
    IF o.kind = "raises" THEN CatchProductError(rev, o.error[1])
    ELSE IF o.response[1].product = None THEN ReturnedNull
    ELSE IF rev = "rest"
         THEN Returned(TransformProductData(o.response[1].product[1]))
         ELSE Returned(TransformGraphQLProductData(o.response[1].product[1]))

\* entry of getProductById up to the await of the product call
CallGetProductById(rev) ==
    /\ spc = "idle"
    /\ svcOp' = "getProductById"
    /\ svcRevision' = rev
    /\ spc' = "awaitProduct"
    /\ UNCHANGED <<upstream, svcCustomer, svcOutcome>>
    /\ UNCHANGED exceptServices

\* the product call settled with o
ProductSettled(o) ==
    /\ svcOp = "getProductById"
    /\ spc = "awaitProduct"
    /\ upstream' = Append(upstream, Call("get product", o))
    /\ Finish(ProductById(svcRevision, o))
    /\ UNCHANGED <<svcOp, svcRevision, svcCustomer>>
    /\ UNCHANGED exceptServices

\* CreateCustomerRequest: each optional field is absent, '' or a value
CreateCustomerRequests ==
    [email             : {<<"john@example.com">>},
     profile_image_url : {None, Some(<<>>), Some(<<"https://x/img.jpg">>)},
     assigned_product_id : {None, Some(<<>>), Some(<<"4", "5", "6">>)}]

\* responses of POST customers: without customer, with a customer without
\* id, with the id 0, with an id
CreateCustomerResponses ==
    {[customer |-> None],
     [customer |-> Some([id |-> None])],
     [customer |-> Some([id |-> Some(0)])],
     [customer |-> Some([id |-> Some(123)])]}

CreateCustomerOutcomes ==
    {Gives(r) : r \in CreateCustomerResponses}
        \cup {Raises(ApiError("ShopifyApiError",
                              <<"create customer failed: Email ",
                                "has already been taken">>, TRUE, 422)),
              Raises(ApiError("ShopifyApiError", <<"Server error">>,
                              TRUE, 500))}

IsGivenWhenPresent(field) == field # None

\* if (customerData.profile_image_url), if (customerData.assigned_product_id)
IsGiven(field) == field # None /\ field[1] # <<>>

\* the metafield entry createCustomer pushes for a field
PersonalizationEntry(key, value) ==
    [namespace |-> "personalization", key |-> key, value |-> value,
     type |-> "single_line_text_field"]

\* the customerPayload of createCustomer
CustomerPayload(request) ==
    [customer |->
        [email |-> request.email,
         metafields |->
            (IF IsGiven(request.profile_image_url)
             THEN <<PersonalizationEntry("profile_image_url",
                        request.profile_image_url[1])>>
             ELSE <<>>)
            \o (IF IsGiven(request.assigned_product_id)
                THEN <<PersonalizationEntry("assigned_product_id",
                           request.assigned_product_id[1])>>
                ELSE <<>>)]]

\* createCustomer once the POST settled with o
CreatedCustomer(o) ==
    IF o.kind = "raises" THEN Raised(o.error[1])
    ELSE IF \/ o.response[1].customer = None
            \/ o.response[1].customer[1].id = None
            \/ o.response[1].customer[1].id[1] = 0
         THEN Raised(ApiError("Error",
                  <<"Failed to create customer: Invalid response">>,
                  FALSE, 0))
         ELSE Returned(o.response[1].customer[1].id[1])

\* entry of createCustomer up to the await of the POST
CreateCustomer(request) ==
    /\ spc = "idle"
    /\ svcOp' = "createCustomer"
    /\ svcRevision' = "rest"
    /\ spc' = "awaitCreate"
    /\ svcCustomer' = Some(request)
    /\ UNCHANGED <<upstream, svcOutcome>>
    /\ UNCHANGED exceptServices

\* the POST settled with o
CreateCustomerSettled(o) ==
    /\ svcOp = "createCustomer"
    /\ spc = "awaitCreate"
    /\ upstream' = Append(upstream,
           [call |-> "create customer",
            payload |-> CustomerPayload(svcCustomer[1]), outcome |-> o])
    /\ Finish(CreatedCustomer(o))
    /\ UNCHANGED <<svcOp, svcRevision, svcCustomer>>
    /\ UNCHANGED exceptServices

InitServices ==
    /\ ServicesIdle
    /\ CallIdle
    /\ ProxyIdle
    /\ ProviderIdle
    /\ SeederIdle
    /\ CallsIdle
    /\ IdsIdle
    /\ ByIdsIdle

NextServices ==
    \/ \E rev \in {"rest", "graphql", "provider"} : GetCustomerById(rev)
    \/ \E o \in RestCustomerOutcomes : RestCustomerSettled(o)
    \/ \E o \in RestMetafieldOutcomes : RestMetafieldsSettled(o)
    \/ \E o \in GraphQLCustomerOutcomes : GraphQLCustomerSettled(o)
    \/ \E o \in ProviderCustomerOutcomes : ProviderCustomerSettled(o)
    \/ \E r \in ProductByIdResults : ProviderProductSettled(r)
    \/ \E rev \in {"rest", "provider"} : CallGetDefaultProduct(rev)
    \/ \E o \in DefaultProductOutcomes : DefaultProductSettled(o)
    \/ \E rev \in {"rest", "graphql"} : CallGetProductById(rev)
    \/ \E o \in ProductOutcomes : ProductSettled(o)
    \/ \E request \in CreateCustomerRequests :
          CreateCustomer(request)
    \/ \E o \in CreateCustomerOutcomes : CreateCustomerSettled(o)

SpecServices == InitServices /\ [][NextServices]_vars

(***************************************************************************)
(* ProductService.getProductsByIds: one getProductById per id, in a loop   *)
(* that catches what a lookup throws.                                      *)
(***************************************************************************)
MaxIds == 3

ProductIdLists == UNION {[1..k -> {456, 789}] : k \in 0..MaxIds}

\* what the product call of one lookup gives: a product with or without
\* title, no product, a 404, another error
LookupOutcomes ==
    {Gives([product |-> Some(p)]) :
        p \in {q \in ShopifyProducts :
                  /\ q.status = "ACTIVE"
                  /\ q.variants = Some(<<Variant(<<"19.99">>, Some(TRUE))>>)}}
        \cup {Gives([product |-> None])}
        \cup {Raises(e) : e \in {u \in UpstreamErrors :
                                    u.statusCode \in {404, 500}}}

KeepsGoingUntilFailure(result, isLast) ==
    IF isLast \/ result.kind = "throw" THEN "returned" ELSE "running"

\* the for...of loop after one pass: the try/catch lets it go on whatever
\* the lookup gave
KeepsGoing(result, isLast) == IF isLast THEN "returned" ELSE "running"

\* getProductsByIds(session, productIds) is called
GetProductsByIds(rev, productIds) ==
    /\ byIds.pc = "idle"
    /\ byIds' = [pc |-> IF productIds = <<>> THEN "returned" ELSE "running",
                 rev |-> rev, productIds |-> productIds,
                 lookups |-> <<>>, products |-> <<>>]
    /\ UNCHANGED exceptByIds

\* the product call of the lookup of the next id settled with o: one pass
\* through the loop body
LookupSettled(o) ==
    LET productId == byIds.productIds[Len(byIds.lookups) + 1]
        result    == ProductById(byIds.rev, o)
        isLast    == Len(byIds.lookups) + 1 = Len(byIds.productIds)
    IN  /\ byIds.pc = "running"
        /\ byIds' = [byIds EXCEPT
                        !.pc = KeepsGoing(result, isLast),
                        !.lookups = Append(@, [productId |-> productId,
                                               result |-> result]),
                        !.products = IF result.kind = "value"
                                     THEN Append(@, result.value[1])
                                     ELSE @]
        /\ UNCHANGED exceptByIds

InitByIds ==
    /\ ByIdsIdle
    /\ CallIdle
    /\ ProxyIdle
    /\ ServicesIdle
    /\ ProviderIdle
    /\ SeederIdle
    /\ CallsIdle
    /\ IdsIdle

NextByIds ==
    \/ \E rev \in {"rest", "graphql"} : \E productIds \in ProductIdLists :
          GetProductsByIds(rev, productIds)
    \/ \E o \in LookupOutcomes : LookupSettled(o)

SpecByIds == InitByIds /\ [][NextByIds]_vars

(***************************************************************************)
(* The singleton ShopifyApiProvider: constructor, getInstance, reset.      *)
(* A string field of the configuration is absent, '' or a value; scopes    *)
(* is absent or a list.                                                    *)
(***************************************************************************)
MaxCalls == 4

ApiConfigs ==
    [apiKey       : {None, Some(<<>>), Some(<<"test_api_key">>)},
     apiSecretKey : {Some(<<>>), Some(<<"test_api_secret">>)},
     scopes       : {None, Some(<<>>), Some(<<"read_customers">>)},
     hostName     : {Some(<<>>), Some(<<"test.localhost">>)}]

\* process.env: each variable is unset or set
Environments ==
    [SHOPIFY_API_KEY    : {None, Some(<<"env_key">>)},
     SHOPIFY_API_SECRET : {None, Some(<<"env_secret">>)},
     SHOPIFY_SCOPES     : {None, Some(<<"read_customers">>)},
     SHOPIFY_APP_URL    : {None, Some(<<"env.localhost">>)}]

\* the environment of a deployment whose variables are all set
LoadedEnvironment ==
    [SHOPIFY_API_KEY    |-> Some(<<"env_key">>),
     SHOPIFY_API_SECRET |-> Some(<<"env_secret">>),
     SHOPIFY_SCOPES     |-> Some(<<"read_customers">>),
     SHOPIFY_APP_URL    |-> Some(<<"env.localhost">>)]

\* ShopifyApiProvider.loadConfig
LoadConfig(env) ==
    [apiKey       |-> Some(OrElse(env.SHOPIFY_API_KEY, <<>>)),
     apiSecretKey |-> Some(OrElse(env.SHOPIFY_API_SECRET, <<>>)),
     scopes       |-> Some(OrElse(env.SHOPIFY_SCOPES,
                                  <<"read_customers", "read_products">>)),
     hostName     |-> Some(OrElse(env.SHOPIFY_APP_URL, <<"localhost:3000">>))]

\* Partial<RetryConfig>: each key is absent or has a value
RetryOverrides ==
    {None,
     Some([maxRetries |-> Some(5), baseDelay |-> None, maxDelay |-> None]),
     Some([maxRetries |-> None, baseDelay |-> Some(20000), maxDelay |-> None])}

\* { maxRetries: 3, baseDelay: 1000, maxDelay: 10000, ...retryConfig }
MergeRetryConfig(override) ==
    IF override = None
    THEN [maxRetries |-> 3, baseDelay |-> 1000, maxDelay |-> 10000]
    ELSE [maxRetries |-> IF override[1].maxRetries = None THEN 3
                         ELSE override[1].maxRetries[1],
          baseDelay  |-> IF override[1].baseDelay = None THEN 1000
                         ELSE override[1].baseDelay[1],
          maxDelay   |-> IF override[1].maxDelay = None THEN 10000
                         ELSE override[1].maxDelay[1]]

\* !field for an optional string or list
Missing(field) == field = None \/ field[1] = <<>>

ValidateConfigurationNoHostName(apiConfig) ==
    (IF Missing(apiConfig.apiKey)
     THEN <<"apiKey (SHOPIFY_API_KEY)">> ELSE <<>>)
    \o (IF Missing(apiConfig.apiSecretKey)
        THEN <<"apiSecretKey (SHOPIFY_API_SECRET)">> ELSE <<>>)
    \o (IF Missing(apiConfig.scopes)
        THEN <<"scopes (SHOPIFY_SCOPES)">> ELSE <<>>)

\* validateConfiguration: the missingFields; isValid is their absence
ValidateConfiguration(apiConfig) ==
    (IF Missing(apiConfig.apiKey)
     THEN <<"apiKey (SHOPIFY_API_KEY)">> ELSE <<>>)
    \o (IF Missing(apiConfig.apiSecretKey)
        THEN <<"apiSecretKey (SHOPIFY_API_SECRET)">> ELSE <<>>)
    \o (IF Missing(apiConfig.scopes)
        THEN <<"scopes (SHOPIFY_SCOPES)">> ELSE <<>>)
    \o (IF Missing(apiConfig.hostName)
        THEN <<"hostName (SHOPIFY_APP_URL)">> ELSE <<>>)

\* the error the constructor throws
ConfigurationError(missingFields) ==
    [name |-> "ShopifyApiError",
     message |-> "Invalid Shopify API configuration: missing required fields: "
                     \o Join(missingFields)]

ConstructKeepingObject(id, apiConfig, override) ==
    LET missingFields == ValidateConfiguration(apiConfig)
    IN  [object |-> Some([id |-> id, apiConfig |-> apiConfig,
                          retryConfig |-> MergeRetryConfig(override)]),
         error |-> IF Len(missingFields) # 0
                   THEN Some(ConfigurationError(missingFields)) ELSE None]

\* new ShopifyApiProvider(apiConfig, retryConfig): the new object, or the
\* error thrown; id tells objects apart
Construct(id, apiConfig, override) ==
    LET missingFields == ValidateConfiguration(apiConfig)
    IN  IF Len(missingFields) # 0
        THEN [object |-> None, error |-> Some(ConfigurationError(missingFields))]
        ELSE [object |-> Some([id |-> id, apiConfig |-> apiConfig,
                               retryConfig |-> MergeRetryConfig(override)]),
              error |-> None]

NeedsInstanceAlways(inst) == TRUE

\* if (!ShopifyApiProvider.instance)
NeedsInstance(inst) == inst = None

\* a call and what it gave: the instance returned, or threw
Entry(op, constructed, result, threw) ==
    [op |-> op, constructed |-> constructed, result |-> result, threw |-> threw]

ExistingInstanceReconfigured(inst, apiConfig, override) ==
    Some([inst[1] EXCEPT !.apiConfig = apiConfig,
                         !.retryConfig = MergeRetryConfig(override)])

\* return ShopifyApiProvider.instance, when one exists: the arguments of
\* the call are not used
ExistingInstance(inst, apiConfig, override) == inst

\* ShopifyApiProvider.getInstance(apiConfig?, retryConfig?) under env
GetInstance(given, override, env) ==
    /\ Len(history) < MaxCalls
    /\ LET apiConfig == IF given = None THEN LoadConfig(env) ELSE given[1]
       IN  IF NeedsInstance(instance)
           THEN LET made == Construct(created + 1, apiConfig, override)
                IN  /\ lastArgs' = Some([apiConfig |-> apiConfig,
                                         override |-> override,
                                         error |-> made.error])
                    /\ created' = created + 1
                    /\ instance' = made.object
                    /\ history' = Append(history,
                           Entry("getInstance", TRUE,
                                 IF made.object = None THEN None
                                 ELSE Some(made.object[1].id),
                                 made.error # None))
           ELSE /\ lastArgs' = Some([apiConfig |-> apiConfig,
                                     override |-> override,
                                     error |-> None])
                /\ instance' = ExistingInstance(instance, apiConfig, override)
                /\ history' = Append(history,
                       Entry("getInstance", FALSE, Some(instance'[1].id), FALSE))
                /\ UNCHANGED created
    /\ UNCHANGED exceptProvider

\* ShopifyApiProvider.reset()
Reset ==
    /\ Len(history) < MaxCalls
    /\ instance' = None
    /\ history' = Append(history, Entry("reset", FALSE, None, FALSE))
    /\ UNCHANGED <<created, lastArgs>>
    /\ UNCHANGED exceptProvider

InitProvider ==
    /\ ProviderIdle
    /\ SeederIdle
    /\ CallsIdle
    /\ CallIdle
    /\ ProxyIdle
    /\ ServicesIdle
    /\ IdsIdle
    /\ ByIdsIdle

NextProvider ==
    \/ \E c \in ApiConfigs : \E override \in RetryOverrides :
          GetInstance(Some(c), override, LoadedEnvironment)
    \/ \E env \in Environments : \E override \in RetryOverrides :
          GetInstance(None, override, env)
    \/ Reset

SpecProvider == InitProvider /\ [][NextProvider]_vars

(***************************************************************************)
(* DataSeeder.seedCustomers and seedProducts, in the revision that uses    *)
(* CustomerService.createCustomer and ProductService.createProduct.        *)
(***************************************************************************)
MaxBatch == 3

\* CustomerSeedData and ProductSeedData entries, by their unique field
CustomerSeedData ==
    {[email |-> "alice.johnson@example.com",
      assigned_product_id |-> "premium-wireless-headphones"],
     [email |-> "diana.prince@example.com", assigned_product_id |-> ""]}

ProductSeedData ==
    {[handle |-> "premium-wireless-headphones"],
     [handle |-> "smart-fitness-watch"]}

Batches(entries) == UNION {[1..k -> entries] : k \in 0..MaxBatch}

\* the errors the service create methods raise: the upstream rejected the
\* unique field, the upstream failed otherwise, the response had no id
ConflictErrors ==
    {ApiError("ShopifyApiError",
              <<"create customer failed: Email ", "has already been taken">>,
              TRUE, 422),
     ApiError("ShopifyApiError",
              <<"create product failed: Handle ", "has already been taken">>,
              TRUE, 422)}

CreateErrors ==
    ConflictErrors
        \cup {ApiError("ShopifyApiError",
                       <<"create customer failed: ", "Network down">>,
                       FALSE, 0),
              ApiError("Error",
                       <<"Failed to create customer: Invalid response">>,
                       FALSE, 0)}

\* what customerService.createCustomer / productService.createProduct gave:
\* the id of the created resource, or an error
CreateOutcomes ==
    {Gives(id) : id \in {123, 456}} \cup {Raises(e) : e \in CreateErrors}

AlreadyTakenNever(e) == FALSE

\* error instanceof Error && error.message.includes('has already been taken')
AlreadyTaken(e) == Includes(e.message, "has already been taken")

CreateSkippingEveryError(o) ==
    IF o.kind = "gives" THEN Returned(o.response[1]) ELSE Returned(-1)

\* DataSeeder.createCustomer and createProduct: the id returned, or the
\* error rethrown
Create(o) ==
    IF o.kind = "gives" THEN Returned(o.response[1])
    ELSE IF AlreadyTaken(o.error[1]) THEN Returned(-1)
         ELSE Raised(o.error[1])

\* Map.prototype.set on the pairs of a map, kept in insertion order
MapSet(map, key, value) ==
    IF \E i \in 1..Len(map) : map[i].key = key
    THEN [i \in 1..Len(map) |->
             IF map[i].key = key THEN [key |-> key, value |-> value]
             ELSE map[i]]
    ELSE Append(map, [key |-> key, value |-> value])

\* seedCustomers(batch) or seedProducts(batch) is called
Seed(kind, batch) ==
    /\ seedPc = "idle"
    /\ seedKind' = kind
    /\ seedInput' = batch
    /\ seedPc' = IF batch = <<>> THEN "returned" ELSE "running"
    /\ UNCHANGED <<seedCalls, seedIds, seedMap, seedError, run>>
    /\ UNCHANGED exceptSeeder

\* the service create call for the next entry settled with o: one pass
\* through the loop body of seedCustomers / seedProducts
CreateSettled(o) ==
    LET data == seedInput[Len(seedCalls) + 1]
        id   == Create(o)
    IN  /\ seedPc = "running"
        /\ seedCalls' = Append(seedCalls, [data |-> data, outcome |-> o])
        /\ IF id.kind = "throw"
           THEN /\ seedPc' = "thrown"
                /\ seedError' = id.error
                /\ UNCHANGED <<seedIds, seedMap>>
           ELSE /\ seedPc' = IF Len(seedCalls) + 1 = Len(seedInput)
                             THEN "returned" ELSE "running"
                /\ seedError' = seedError
                /\ IF seedKind = "customers"
                   THEN /\ seedIds' = Append(seedIds, id.value[1])
                        /\ seedMap' = seedMap
                   ELSE /\ seedIds' = seedIds
                        /\ seedMap' = IF id.value[1] > 0
                                      THEN MapSet(seedMap, data.handle,
                                                  id.value[1])
                                      ELSE seedMap
        /\ UNCHANGED <<seedKind, seedInput, run>>
        /\ UNCHANGED exceptSeeder

InitSeeder ==
    /\ SeederIdle
    /\ CallIdle
    /\ ProxyIdle
    /\ ServicesIdle
    /\ ProviderIdle
    /\ IdsIdle
    /\ ByIdsIdle
    /\ CallsIdle

NextSeeder ==
    \/ \E batch \in Batches(CustomerSeedData) : Seed("customers", batch)
    \/ \E batch \in Batches(ProductSeedData) : Seed("products", batch)
    \/ \E o \in CreateOutcomes : CreateSettled(o)

SpecSeeder == InitSeeder /\ [][NextSeeder]_vars

(***************************************************************************)
(* Two makeApiCall invocations in flight on one provider.  The provider    *)
(* holds retryConfig; attempt and lastError are locals of each invocation, *)
(* and sleep() is a timer promise of the invocation that awaits it.        *)
(***************************************************************************)
Callers == {1, 2}

\* the locals of one invocation before its loop starts
NewCall ==
    [pc |-> "idle", attempt |-> 0, invoked |-> 0, failed |-> 0,
     delays |-> <<>>, cause |-> "none"]

NextAttemptShared(cs, c) ==
    [d \in DOMAIN cs |-> [cs[d] EXCEPT !.attempt = @ + 1]]

\* attempt++ of the loop of invocation c
NextAttempt(cs, c) == [cs EXCEPT ![c].attempt = @ + 1]

\* caller c calls makeApiCall
StartCallOf(c) ==
    /\ calls[c].pc = "idle"
    /\ calls' = [calls EXCEPT ![c].pc =
                    IF LoopGuard(0, retryConfig) THEN "run" ELSE "thrown"]
    /\ UNCHANGED exceptCalls

\* one pass through the try/catch of invocation c, for thunk outcome o
SettleOf(c, o) ==
    LET caught == CaughtError(o, Operation("api"))
        call   == [calls[c] EXCEPT !.invoked = @ + 1]
    IN  /\ calls[c].pc = "run"
        /\ calls' =
             [calls EXCEPT ![c] =
                IF caught = None
                THEN [call EXCEPT !.pc = "returned"]
                ELSE IF IsClientError(caught[1])
                THEN [call EXCEPT !.pc = "thrown", !.failed = @ + 1,
                                  !.cause = "client"]
                ELSE IF IsLastAttempt(call.attempt, retryConfig)
                THEN [call EXCEPT !.pc = "thrown", !.failed = @ + 1,
                                  !.cause = "exhausted"]
                ELSE [call EXCEPT !.pc = "sleeping", !.failed = @ + 1,
                                  !.delays = Append(@,
                                      BackoffDelay(retryConfig, call.attempt))]]
        /\ UNCHANGED exceptCalls

\* the timer of invocation c fired: attempt++ and the loop condition
SleepDoneOf(c) ==
    /\ calls[c].pc = "sleeping"
    /\ LET cs == NextAttempt(calls, c)
       IN  calls' = [cs EXCEPT ![c].pc =
                        IF LoopGuard(cs[c].attempt, retryConfig)
                        THEN "run" ELSE "thrown"]
    /\ UNCHANGED exceptCalls

InitCalls ==
    /\ calls = [c \in Callers |-> NewCall]
    /\ retryConfig \in RetryConfigs
    /\ callKind = "api"
    /\ pc = "idle"
    /\ attempt = 0
    /\ lastError = None
    /\ outcomes = <<>>
    /\ delays = <<>>
    /\ callResult = None
    /\ callError = None
    /\ ProxyIdle
    /\ ServicesIdle
    /\ ProviderIdle
    /\ IdsIdle
    /\ ByIdsIdle
    /\ SeederIdle

NextCalls ==
    \/ \E c \in Callers : StartCallOf(c)
    \/ \E c \in Callers : \E o \in ApiThunkOutcomes : SettleOf(c, o)
    \/ \E c \in Callers : SleepDoneOf(c)

SpecCalls == InitCalls /\ [][NextCalls]_vars

(***************************************************************************)
(* The runSeeders script: the default products are seeded, the default     *)
(* customers are given the ids of the created products, and the customers  *)
(* are seeded.                                                             *)
(***************************************************************************)
\* DataSeeder.getDefaultProducts, by handle
GetDefaultProducts ==
    <<[handle |-> "premium-wireless-headphones"],
      [handle |-> "smart-fitness-watch"]>>

\* DataSeeder.getDefaultCustomers, by email and assigned product; the last
\* one has no assigned product, which reads as the empty string
GetDefaultCustomers ==
    <<[email |-> "alice.johnson@example.com",
       assigned_product_id |-> "premium-wireless-headphones"],
      [email |-> "bob.smith@example.com",
       assigned_product_id |-> "smart-fitness-watch"],
      [email |-> "charlie.brown@example.com",
       assigned_product_id |-> "premium-wireless-headphones"],
      [email |-> "charlie.brown2@example.com",
       assigned_product_id |-> "smart-fitness-watch"],
      [email |-> "diana.prince@example.com", assigned_product_id |-> ""]>>

\* productId.toString(), as a string of decimal digits
RECURSIVE ProductIdToString(_)
ProductIdToString(n) ==
    IF n < 10 THEN ToDigits(n)[1]
    ELSE ProductIdToString(n \div 10) \o ToDigits(n % 10)[1]

\* Map.prototype.get: the value under the key, if there is one
MapGet(map, key) ==
    IF \E i \in 1..Len(map) : map[i].key = key
    THEN Some((CHOOSE pair \in {map[i] : i \in 1..Len(map)} :
                  pair.key = key).value)
    ELSE None

WithRealProductKeepingHandle(customer, productMap) ==
    IF customer.assigned_product_id = "" THEN customer
    ELSE LET productId == MapGet(productMap, customer.assigned_product_id)
         IN  IF productId = None \/ productId[1] = 0
             THEN customer
             ELSE [customer EXCEPT
                      !.assigned_product_id = ProductIdToString(productId[1])]

\* the callback of getDefaultCustomers().map in runSeeders
WithRealProduct(customer, productMap) ==
    IF customer.assigned_product_id = "" THEN customer
    ELSE LET productId == MapGet(productMap, customer.assigned_product_id)
         IN  IF productId = None \/ productId[1] = 0
             THEN [customer EXCEPT !.assigned_product_id = ""]
             ELSE [customer EXCEPT
                      !.assigned_product_id = ProductIdToString(productId[1])]

\* Array.from(productMap.values())
MapValues(map) == [i \in 1..Len(map) |-> map[i].value]

\* runSeeders is called: seedProducts(getDefaultProducts()) starts
RunSeeders ==
    /\ run.pc = "idle"
    /\ seedPc = "idle"
    /\ run' = [run EXCEPT !.pc = "products"]
    /\ seedKind' = "products"
    /\ seedInput' = GetDefaultProducts
    /\ seedPc' = "running"
    /\ UNCHANGED <<seedCalls, seedIds, seedMap, seedError>>
    /\ UNCHANGED exceptSeeder

\* seedProducts returned the product map: the customers are mapped and
\* seedCustomers(customersWithRealProducts) starts
SeedCustomersWithRealProducts ==
    /\ run.pc = "products"
    /\ seedPc = "returned"
    /\ run' = [run EXCEPT !.pc = "customers", !.productCalls = seedCalls,
                          !.productMap = seedMap]
    /\ seedKind' = "customers"
    /\ seedInput' = [i \in 1..Len(GetDefaultCustomers) |->
                        WithRealProduct(GetDefaultCustomers[i], seedMap)]
    /\ seedPc' = "running"
    /\ seedCalls' = <<>>
    /\ seedIds' = <<>>
    /\ seedMap' = <<>>
    /\ UNCHANGED seedError
    /\ UNCHANGED exceptSeeder

\* seedCustomers returned: runSeeders returns { customerIds, productIds }
RunReturned ==
    /\ run.pc = "customers"
    /\ seedPc = "returned"
    /\ run' = [run EXCEPT !.pc = "returned",
                          !.result = Some([customerIds |-> seedIds,
                                           productIds |->
                                               MapValues(run.productMap)])]
    /\ UNCHANGED <<seedPc, seedKind, seedInput, seedCalls, seedIds, seedMap,
                   seedError>>
    /\ UNCHANGED exceptSeeder

NextRun ==
    \/ RunSeeders
    \/ \E o \in CreateOutcomes : CreateSettled(o)
    \/ SeedCustomersWithRealProducts
    \/ RunReturned

SpecRun == InitSeeder /\ [][NextRun]_vars

(***************************************************************************)
(* Properties of makeApiCall.                                              *)
(***************************************************************************)
Invocations == Len(outcomes)

\* the thunk raised an error with a status in [400, 500)
RaisedClientError(entry) ==
    /\ entry.thunk.kind = "reject"
    /\ entry.thunk.error[1].hasResponse
    /\ entry.thunk.error[1].status \in 400..499

\* the thunk raised an error with another status, or with none
RaisedRetryable(entry) ==
    /\ entry.thunk.kind = "reject"
    /\ ~(entry.thunk.error[1].hasResponse
         /\ entry.thunk.error[1].status \in 400..499)

\* a resolved value that is envelope shaped and carries an errors field
CarriesErrors(v) ==
    /\ v.type = "object"
    /\ v.hasBody
    /\ \/ v.errKind = "array"
       \/ v.errKind = "string" /\ v.errList # <<"">>

\* the attempt ended with an application-level error on a response that
\* was transported successfully
ApplicationError(entry) ==
    \/ entry.thunk.kind = "resolve" /\ CarriesErrors(entry.thunk.value[1])
    \/ Len(entry.gqlErrors) > 0

\* C1: when every invocation of the thunk raised a non-4xx error, the call
\* has not returned a value, the thunk has been invoked at most
\* maxRetries + 1 times, and the call has raised its terminal
\* ShopifyApiError exactly when the thunk has been invoked maxRetries + 1
\* times.
C1_RetryCeiling ==
    (\A i \in 1..Invocations : RaisedRetryable(outcomes[i]))
        => /\ pc # "returned"
           /\ callResult = None
           /\ Invocations <= retryConfig.maxRetries + 1
           /\ (pc = "thrown") <=> (Invocations = retryConfig.maxRetries + 1)
           /\ pc = "thrown" =>
                 /\ callError # None
                 /\ callError[1].name = "ShopifyApiError"

C1_Witness ==
    /\ pc = "thrown"
    /\ retryConfig.maxRetries = 2
    /\ Invocations = 3
    /\ \A i \in 1..Invocations : RaisedRetryable(outcomes[i])
    /\ ~outcomes[1].thunk.error[1].hasResponse
    /\ outcomes[2].thunk.error[1].status = 500
    /\ outcomes[3].thunk.error[1].status = 399

\* C2: an invocation at which the thunk raised a 4xx error is the last
\* invocation of the call, and the call has raised its terminal error, at
\* whatever attempt it happened.
C2_NoRetryOn4xx ==
    \A i \in 1..Invocations :
        RaisedClientError(outcomes[i])
            => /\ i = Invocations
               /\ pc = "thrown"
               /\ callError # None
               /\ callError[1].statusCode = outcomes[i].thunk.error[1].status

C2_Witness ==
    /\ pc = "thrown"
    /\ Invocations = 2
    /\ retryConfig.maxRetries = 3
    /\ RaisedRetryable(outcomes[1])
    /\ RaisedClientError(outcomes[2])
    /\ outcomes[2].thunk.error[1].status = 404

\* C3: the k-th sleep of a call (after the failed attempt with index
\* k - 1) lasts min(baseDelay * 2^(k-1), maxDelay); the delays of a call
\* never decrease and none exceeds maxDelay.
C3_BackoffGrowth ==
    /\ \A k \in 1..Len(delays) :
          /\ delays[k] = Min(retryConfig.baseDelay * 2^(k - 1),
                             retryConfig.maxDelay)
          /\ delays[k] <= retryConfig.maxDelay
          /\ k > 1 => delays[k - 1] <= delays[k]
    /\ pc = "sleeping" => Len(delays) = attempt + 1
    /\ pc = "run" => Len(delays) = attempt

C3_Witness ==
    /\ Len(delays) = 3
    /\ delays[1] < delays[2]
    /\ delays[2] < delays[3]
    /\ delays[3] = retryConfig.maxDelay
    /\ retryConfig.baseDelay * 4 > retryConfig.maxDelay

\* C4 as claimed: when the thunk raised retryable errors on its first j
\* invocations and resolved on invocation j + 1, the call has returned the
\* resolved value and the thunk has been invoked exactly j + 1 times.
C4_TransientMaskedAsClaimed ==
    \A i \in 1..Invocations :
        (/\ outcomes[i].thunk.kind = "resolve"
         /\ \A j \in 1..(i - 1) : RaisedRetryable(outcomes[j]))
            => /\ i = Invocations
               /\ pc = "returned"
               /\ callResult = outcomes[i].thunk.value

\* C4 amended: when the thunk raised retryable errors on its first j
\* invocations and resolved on invocation j + 1 with a value that passes
\* response validation, the call has returned exactly that value after
\* j + 1 invocations; and the thunk is never invoked after a resolution
\* that passes validation.
C4_TransientMasked ==
    /\ \A i \in 1..Invocations :
          (/\ outcomes[i].thunk.kind = "resolve"
           /\ ~CarriesErrors(outcomes[i].thunk.value[1]))
              => /\ i = Invocations
                 /\ i <= retryConfig.maxRetries + 1
                 /\ pc = "returned"
                 /\ callResult = outcomes[i].thunk.value
    /\ pc = "returned" =>
          /\ Invocations > 0
          /\ outcomes[Invocations].thunk.kind = "resolve"
          /\ callResult = outcomes[Invocations].thunk.value

C4_Witness ==
    /\ pc = "returned"
    /\ Invocations = 3
    /\ RaisedRetryable(outcomes[1])
    /\ RaisedRetryable(outcomes[2])
    /\ callResult = Some(PlainObject("success"))
    /\ Len(delays) = 2

\* C5: no sleep is performed after the thunk raised a 4xx error: the call
\* has raised its terminal error with one sleep per earlier attempt, and
\* with no sleep at all when the first attempt failed with a 4xx status.
C5_NoLatencyOn4xx ==
    (Invocations > 0 /\ RaisedClientError(outcomes[Invocations]))
        => /\ pc = "thrown"
           /\ Len(delays) = Invocations - 1
           /\ Invocations = 1 => delays = <<>>

C5_Witness ==
    /\ pc = "thrown"
    /\ Invocations = 1
    /\ RaisedClientError(outcomes[1])
    /\ outcomes[1].thunk.error[1].status = 499
    /\ retryConfig.maxRetries > 0
    /\ delays = <<>>

\* C6: an attempt that ended with an application-level error (an envelope
\* with an errors field, or a GraphQL response with a non-empty error
\* list) is the only attempt of the call: the call has failed, with no
\* sleep and no further invocation.
C6_ApplicationErrorNotRetried ==
    \A i \in 1..Invocations :
        ApplicationError(outcomes[i])
            => /\ i = 1
               /\ Invocations = 1
               /\ pc = "thrown"
               /\ delays = <<>>

(***************************************************************************)
(* Properties of handleUserLanding.                                        *)
(***************************************************************************)
Sentinel ==
    [id |-> 0, title |-> <<"Featured Product">>,
     handle |-> <<"featured-product">>, price |-> <<"0.00">>,
     image_url |-> <<>>]

Succeeded == hpc = "done" /\ responses # <<>> /\ responses[1].body.success

\* the positions of the lookups of one kind
LookupsOf(op) == {i \in 1..Len(lookups) : lookups[i].op = op}

\* the lookup at position i has settled and gave a value
Gave(i) == i <= Len(results) /\ results[i].kind = "value"

\* the lookup at position i has settled and gave nothing
GaveNothing(i) == i <= Len(results) /\ results[i].kind = "null"

\* C7: in the service based handler the assigned product is looked up
\* only when the customer has an assigned-product id, the default product
\* only when the assigned product is missing, and the sentinel is used
\* only when the default product is missing too; the product of a success
\* response is the first of the three that is present.
C7_FallbackChain ==
    revision = "client" =>
        /\ \A i \in LookupsOf("getAssignedProduct") :
              /\ i = 2
              /\ Gave(1)
              /\ results[1].value[1].assigned_product_id # None
              /\ lookups[i].arg = results[1].value[1].assigned_product_id
              /\ ~lookups[i].arg[1].nan /\ lookups[i].arg[1].val # 0
        /\ \A i \in LookupsOf("getDefaultProduct") :
              /\ Gave(1)
              /\ \A j \in LookupsOf("getAssignedProduct") :
                    j < i /\ GaveNothing(j)
        /\ \A i \in LookupsOf("getDefaultProductData") :
              /\ \E j \in LookupsOf("getDefaultProduct") :
                    j < i /\ GaveNothing(j)
              /\ \A j \in LookupsOf("getAssignedProduct") : GaveNothing(j)
        /\ Succeeded =>
              LET product  == responses[1].body.data[1].assigned_product
                  assigned == {i \in LookupsOf("getAssignedProduct") : Gave(i)}
                  default  == {i \in LookupsOf("getDefaultProduct") : Gave(i)}
                  customer == results[1].value[1]
              IN  /\ product # None
                  /\ (customer.assigned_product_id # None
                      /\ ~customer.assigned_product_id[1].nan
                      /\ customer.assigned_product_id[1].val # 0)
                         => LookupsOf("getAssignedProduct") # {}
                  /\ IF assigned # {}
                     THEN /\ \A i \in assigned : product = results[i].value
                          /\ LookupsOf("getDefaultProduct") = {}
                          /\ LookupsOf("getDefaultProductData") = {}
                     ELSE IF default # {}
                     THEN /\ \A i \in default : product = results[i].value
                          /\ LookupsOf("getDefaultProductData") = {}
                     ELSE /\ product = <<Sentinel>>
                          /\ LookupsOf("getDefaultProduct") # {}
                          /\ LookupsOf("getDefaultProductData") # {}

C7_Witness ==
    /\ revision = "client"
    /\ Succeeded
    /\ Len(lookups) = 4
    /\ lookups[2].op = "getAssignedProduct"
    /\ lookups[3].op = "getDefaultProduct"
    /\ lookups[4].op = "getDefaultProductData"
    /\ responses[1].body.data[1].assigned_product = <<Sentinel>>

\* C8: every success response carries a defined assigned_product.
C8_AlwaysAProduct ==
    \A i \in 1..Len(responses) :
        responses[i].body.success
            => /\ responses[i].body.data # None
               /\ responses[i].body.data[1].assigned_product # None

\* C9: a request gets at most one response and has one exactly when it is
\* over; a request in progress can always go on; the status is 200, 400,
\* 404 or 500; success is true exactly for 200; data comes only with
\* success and error only with failure.
C9_OneResponse ==
    /\ Len(responses) <= 1
    /\ (hpc = "done") <=> (Len(responses) = 1)
    /\ hpc \notin {"idle", "done"} => ENABLED NextProxy
    /\ \A i \in 1..Len(responses) :
          /\ responses[i].status \in {200, 400, 404, 500}
          /\ responses[i].body.success <=> (responses[i].status = 200)
          /\ responses[i].body.data # None => responses[i].body.success
          /\ responses[i].body.error # None => ~responses[i].body.success

C9_Witness ==
    /\ hpc = "done"
    /\ Len(responses) = 1
    /\ responses[1].status = 500
    /\ responses[1].body.error = Some("Service error")
    /\ Len(lookups) = 2

\* a string that is a decimal number: digits with at most one dot and at
\* least one digit, white space allowed around it
DecimalNumber(chars) ==
    \E a \in 1..Len(chars) : \E b \in a..Len(chars) :
        /\ \A i \in 1..(a - 1) : chars[i] = " "
        /\ \A i \in (b + 1)..Len(chars) : chars[i] = " "
        /\ \A i \in a..b : chars[i] \in Digits \cup {"."}
        /\ Cardinality({i \in a..b : chars[i] = "."}) <= 1
        /\ \E i \in a..b : chars[i] \in Digits

MissingOrUnparseable(q) ==
    \/ q = None
    \/ q[1].type # "string"
    \/ ~DecimalNumber(q[1].chars)

\* C10: in the service based handler a request whose user_id is missing
\* or is not a number is over at once, with the single response 400
\* "Invalid or missing user_id parameter" and without any lookup.
C10_InvalidUserId ==
    (revision = "client" /\ hpc # "idle" /\ MissingOrUnparseable(userId))
        => /\ hpc = "done"
           /\ responses =
                 <<[status |-> 400,
                    body |-> [success |-> FALSE, data |-> None,
                              error |-> Some("Invalid or missing user_id parameter")]]>>
           /\ lookups = <<>>
           /\ results = <<>>

C10_Witness ==
    /\ revision = "client"
    /\ hpc = "done"
    /\ userId = Some(QueryString(<<"1", "a">>))
    /\ responses # <<>>
    /\ responses[1].status = 400
    /\ lookups = <<>>

\* C11: when the customer lookup gives null the request is over with the
\* single response 404 "Customer not found", and the customer lookup is the
\* only lookup made: no assigned product, no default product, no sentinel.
C11_CustomerNotFound ==
    (Len(results) >= 1 /\ results[1].kind = "null")
        => /\ hpc = "done"
           /\ responses =
                 <<[status |-> 404,
                    body |-> [success |-> FALSE, data |-> None,
                              error |-> Some("Customer not found")]]>>
           /\ Len(lookups) = 1
           /\ lookups[1].op = "getCustomerById"
           /\ results = <<Absent>>
           /\ revision = "client" => ~MissingOrUnparseable(userId)

C11_Witness ==
    /\ revision = "client"
    /\ hpc = "done"
    /\ userId = Some(QueryString(<<"1">>))
    /\ results = <<Absent>>
    /\ responses # <<>>
    /\ responses[1].status = 404

\* the message of the error a lookup threw, if the last lookup threw
LastThrown ==
    IF results # <<>> /\ results[Len(results)].kind = "throw"
    THEN Some(results[Len(results)].message)
    ELSE None

\* C12: an unexpected failure is answered with 500 and success false; in
\* production the error text is the generic message, never the internal
\* one, and otherwise it is the internal message verbatim.
C12_ErrorMessageHardened ==
    LastThrown # None
        => /\ hpc = "done"
           /\ Len(responses) = 1
           /\ responses[1].status = 500
           /\ ~responses[1].body.success
           /\ responses[1].body.error =
                 IF nodeEnv = "production"
                 THEN Some("Internal server error")
                 ELSE LastThrown

\* C13: in every success response the name and the avatar are non-empty:
\* "Valued Customer" for an empty first_name, the default avatar for an
\* absent or empty profile_image_url, and the customer's own values
\* otherwise.
C13_NameAndAvatar ==
    Succeeded =>
        LET data     == responses[1].body.data[1]
            customer == IF revision = "client" THEN results[1].value[1]
                        ELSE customerData[1]
        IN  /\ data.first_name # <<>>
            /\ data.profile_image_url # None
            /\ data.profile_image_url[1] # <<>>
            /\ data.first_name =
                  IF customer.first_name = <<>> THEN <<"Valued Customer">>
                  ELSE customer.first_name
            /\ data.profile_image_url[1] =
                  IF \/ customer.profile_image_url = None
                     \/ customer.profile_image_url[1] = <<>>
                  THEN <<"/assets/default-avatar.png">>
                  ELSE customer.profile_image_url[1]

(***************************************************************************)
(* Properties of the services.                                             *)
(***************************************************************************)
\* the customer call of a getCustomerById has settled
CustomerCallSettled ==
    svcOp = "getCustomerById" /\ Len(upstream) >= 1

\* upstream said there is no such customer: a 404 on the REST path, or a
\* response whose customer is null
NoSuchCustomer ==
    LET o == upstream[1].outcome
    IN  \/ /\ svcRevision = "rest"
           /\ o.kind = "raises"
           /\ o.error[1].name = "ShopifyApiError"
           /\ o.error[1].hasStatusCode
           /\ o.error[1].statusCode = 404
        \/ /\ o.kind = "gives"
           /\ o.response[1].customer = None
           /\ svcRevision # "rest" => o.response[1].form \in {"direct", "wrapped"}

\* C14: when upstream reports that the customer does not exist,
\* getCustomerById is over after that one call and returns null; it
\* raises nothing.
C14_AbsentNotError ==
    (CustomerCallSettled /\ NoSuchCustomer)
        => /\ spc = "done"
           /\ Len(upstream) = 1
           /\ svcOutcome # None
           /\ svcOutcome[1].kind = "null"
           /\ svcOutcome[1].error = None

C14_Witness ==
    /\ svcOp = "getCustomerById"
    /\ svcRevision = "rest"
    /\ spc = "done"
    /\ Len(upstream) = 1
    /\ upstream[1].outcome.kind = "raises"
    /\ upstream[1].outcome.error[1].statusCode = 404
    /\ svcOutcome = Some(ReturnedNull)

\* the customer lookup failed otherwise than by not-found: the call raised
\* an error that is not a 404, or the response carried GraphQL errors
OtherFailure ==
    LET o == upstream[1].outcome
    IN  \/ /\ o.kind = "raises"
           /\ ~(o.error[1].hasStatusCode /\ o.error[1].statusCode = 404)
        \/ /\ o.kind = "gives"
           /\ svcRevision = "graphql"
           /\ o.response[1].form \in {"errors", "nodata"}

\* C15: a failure of the customer lookup other than not-found reaches the
\* caller of getCustomerById as that same error: the result is neither
\* null nor a customer record.
C15_FailurePropagates ==
    (CustomerCallSettled /\ svcRevision \in {"rest", "graphql"} /\ OtherFailure)
        => /\ spc = "done"
           /\ svcOutcome # None
           /\ svcOutcome[1].kind = "throw"
           /\ upstream[1].outcome.kind = "raises"
                 => svcOutcome[1].error = upstream[1].outcome.error

\* C16: getCustomerMetafields gives the empty set whenever its call
\* raises, and the REST getCustomerById whose metafields call raised still
\* returns the customer, with profile_image_url and assigned_product_id
\* absent.
C16_MetafieldFailOpen ==
    /\ \A e \in UpstreamErrors :
          GetCustomerMetafields(Raises(e)) =
              Returned([profile_image_url |-> None,
                        assigned_product_id |-> None])
    /\ (/\ svcOp = "getCustomerById"
        /\ svcRevision = "rest"
        /\ Len(upstream) = 2
        /\ upstream[2].outcome.kind = "raises")
          => /\ spc = "done"
             /\ svcOutcome # None
             /\ svcOutcome[1].kind = "value"
             /\ svcOutcome[1].error = None
             /\ svcOutcome[1].value[1].first_name =
                   upstream[1].outcome.response[1].customer[1].first_name
             /\ svcOutcome[1].value[1].profile_image_url = None
             /\ svcOutcome[1].value[1].assigned_product_id = None

C16_Witness ==
    /\ svcOp = "getCustomerById"
    /\ svcRevision = "rest"
    /\ spc = "done"
    /\ Len(upstream) = 2
    /\ upstream[2].outcome.kind = "raises"
    /\ upstream[2].outcome.error[1].statusCode = 500
    /\ svcOutcome # None
    /\ svcOutcome[1].kind = "value"
    /\ svcOutcome[1].value[1].first_name = <<"John">>

\* C17: getDefaultProduct returns the first product of the query when the
\* query gives at least one, and null when the query gives none or fails;
\* it never raises.
C17_DefaultProductFailOpen ==
    (svcOp = "getDefaultProduct" /\ Len(upstream) >= 1)
        => LET o == upstream[1].outcome
               some == /\ o.kind = "gives"
                       /\ ~o.response[1].invalid
                       /\ o.response[1].products # <<>>
           IN  /\ spc = "done"
               /\ svcOutcome # None
               /\ svcOutcome[1].kind # "throw"
               /\ some =>
                     LET first == o.response[1].products[1]
                     IN  /\ svcOutcome[1].kind = "value"
                         /\ svcOutcome[1].value[1].id = first.id
                         /\ svcOutcome[1].value[1].title = first.title
                         /\ svcOutcome[1].value[1].handle = first.handle
                         /\ svcOutcome[1].value[1].price = first.price
               /\ ~some => svcOutcome[1].kind = "null"

C17_Witness ==
    /\ svcOp = "getDefaultProduct"
    /\ spc = "done"
    /\ upstream[1].outcome.kind = "gives"
    /\ Len(upstream[1].outcome.response[1].products) = 2
    /\ svcOutcome # None
    /\ svcOutcome[1].kind = "value"
    /\ svcOutcome[1].value[1].id = 456

(***************************************************************************)
(* Properties of the provider singleton.                                   *)
(***************************************************************************)
\* one of the four required fields is empty or missing
LacksRequiredField(apiConfig) ==
    \E field \in {apiConfig.apiKey, apiConfig.apiSecretKey,
                  apiConfig.scopes, apiConfig.hostName} :
        field = None \/ Len(field[1]) = 0

\* the latest call ran the constructor
ConstructedLast ==
    /\ history # <<>>
    /\ history[Len(history)].op = "getInstance"
    /\ history[Len(history)].constructed

\* C18: the constructor throws the configuration error exactly when one of
\* apiKey, apiSecretKey, scopes, hostName is empty or missing, and then no
\* instance is stored; the instance that exists has the four fields
\* non-empty.
C18_ConfigurationValidated ==
    /\ ConstructedLast =>
          LET last == history[Len(history)]
          IN  /\ lastArgs # None
              /\ last.threw <=> LacksRequiredField(lastArgs[1].apiConfig)
              /\ last.threw <=> (lastArgs[1].error # None)
              /\ last.threw =>
                    /\ instance = None
                    /\ last.result = None
                    /\ lastArgs[1].error[1].name = "ShopifyApiError"
              /\ ~last.threw =>
                    /\ instance # None
                    /\ instance[1].apiConfig = lastArgs[1].apiConfig
                    /\ last.result = Some(instance[1].id)
    /\ instance # None => ~LacksRequiredField(instance[1].apiConfig)

C18_Witness ==
    /\ Len(history) = 2
    /\ history[1].threw
    /\ history[2].constructed /\ ~history[2].threw
    /\ instance # None
    /\ instance[1].apiConfig.hostName = Some(<<"test.localhost">>)

\* a reset lies strictly between the calls i and j
ResetBetween(i, j) ==
    \E k \in (i + 1)..(j - 1) : history[k].op = "reset"

\* C19: two getInstance calls with no reset between them return the same
\* instance, and two with a reset between them return different ones.
C19_SingletonLifecycle ==
    \A i \in 1..Len(history) : \A j \in (i + 1)..Len(history) :
        (/\ history[i].op = "getInstance" /\ history[i].result # None
         /\ history[j].op = "getInstance" /\ history[j].result # None)
            => (history[i].result = history[j].result) <=> ~ResetBetween(i, j)

C19_Witness ==
    /\ Len(history) = 4
    /\ history[1].op = "getInstance" /\ history[1].result # None
    /\ history[2].op = "getInstance" /\ history[2].result = history[1].result
    /\ history[3].op = "reset"
    /\ history[4].op = "getInstance" /\ history[4].result # None
    /\ history[4].result # history[1].result

(***************************************************************************)
(* Properties of the id conversion.                                        *)
(***************************************************************************)
\* C20: toRestId(toGraphQLId(n, t)) is n, for every non-negative integer n
\* and every resource type t.
C20_IdRoundTrip ==
    (ipc = "done" /\ restId # None)
        => /\ idOutcome # None
           /\ ~idOutcome[1].threw
           /\ idOutcome[1].value = restId

\* C20 for the integers whose decimal string has no exponent (n < 1e21)
C20_IdRoundTripBelow1e21 ==
    (ipc = "done" /\ restId # None /\ Len(restId[1].digits) <= 21)
        => /\ idOutcome # None
           /\ ~idOutcome[1].threw
           /\ idOutcome[1].value = restId

\* the part of str after its last '/'
TrailingSegment(str) ==
    LET slashes == {i \in 1..Len(str) : str[i] = "/"}
        last    == IF slashes = {} THEN 0
                   ELSE CHOOSE i \in slashes : \A j \in slashes : j <= i
    IN  SubSeq(str, last + 1, Len(str))

\* C21: toRestId fails with a malformed id error whenever its input has no
\* path segments or its trailing segment is not a base-10 integer; it never
\* returns a value that is not an integer for such an input.
C21_MalformedIdFails ==
    (ipc = "done" /\ restId = None /\ graphqlId # None /\ idOutcome # None)
        => LET id == TrailingSegment(graphqlId[1])
           IN  /\ (id = <<>> \/ id[1] \notin Digits) => idOutcome[1].threw
               /\ ~idOutcome[1].threw => ~idOutcome[1].value[1].nan

(***************************************************************************)
(* Properties of the seeder.                                               *)
(***************************************************************************)
\* the create call i of the batch failed because the unique field exists
Conflict(i) ==
    /\ seedCalls[i].outcome.kind = "raises"
    /\ seedCalls[i].outcome.error[1] \in ConflictErrors

\* C22: a create that fails because the unique field already exists gives
\* the id -1 and does not raise; the batch goes on with the next entry, in
\* input order; seedCustomers returns one id per entry, in input order.
C22_IdempotentCreate ==
    /\ \A i \in 1..Len(seedCalls) :
          /\ seedCalls[i].data = seedInput[i]
          /\ Conflict(i) =>
                /\ ~(seedPc = "thrown" /\ i = Len(seedCalls))
                /\ seedKind = "customers" => seedIds[i] = -1
                /\ seedKind = "products"
                      => \A k \in 1..Len(seedMap) : seedMap[k].value # -1
    /\ seedPc = "returned" => Len(seedCalls) = Len(seedInput)
    /\ (seedPc = "returned" /\ seedKind = "customers") =>
          /\ Len(seedIds) = Len(seedInput)
          /\ \A i \in 1..Len(seedInput) :
                seedIds[i] = IF Conflict(i) THEN -1
                             ELSE seedCalls[i].outcome.response[1]

\* a customer batch returned with a conflict before its last entry
C22_Witness ==
    /\ seedPc = "returned"
    /\ seedKind = "customers"
    /\ Len(seedInput) = 3
    /\ Conflict(2)
    /\ seedIds[2] = -1
    /\ seedIds[3] = 456

(***************************************************************************)
(* Properties of makeGraphQLCall and of the errors of makeApiCall.         *)
(***************************************************************************)
Settled == pc \in {"returned", "thrown"}

\* the message makeGraphQLCall fails with for a response with these errors
GraphQLFailure(errors) ==
    "GraphQL query failed: GraphQL Error: " \o Join(errors)

\* C23: makeGraphQLCall returns the data of a response that carries no
\* errors; when a response carries a non-empty error list the call fails
\* with one error whose message holds every message, in order, joined by
\* ", ".
C23_GraphQLCall ==
    (callKind = "graphql" /\ Settled) =>
        \A i \in 1..Invocations :
            /\ Len(outcomes[i].gqlErrors) > 0 =>
                  /\ pc = "thrown"
                  /\ callError[1].message
                         = GraphQLFailure(outcomes[i].gqlErrors)
            /\ (outcomes[i].thunk.kind = "resolve") =>
                  /\ pc = "returned"
                  /\ callResult = outcomes[i].thunk.value

\* C23 for the response of the last attempt only
C23_GraphQLCallLastResponse ==
    (callKind = "graphql" /\ Settled /\ Invocations > 0) =>
        LET last == outcomes[Invocations]
        IN  /\ Len(last.gqlErrors) > 0 =>
                  /\ pc = "thrown"
                  /\ callError[1].message = GraphQLFailure(last.gqlErrors)
            /\ (last.thunk.kind = "resolve") =>
                  /\ pc = "returned"
                  /\ callResult = last.thunk.value

\* the terminal error the claim expects for the underlying error e
Wrapped(e) ==
    [name          |-> "ShopifyApiError",
     message       |-> Operation(callKind) \o " failed: " \o e.message,
     hasStatusCode |-> e.hasResponse,
     statusCode    |-> IF e.hasResponse THEN e.status ELSE 0,
     response      |-> IF e.hasResponse THEN e.data ELSE "none"]

\* C24: when the attempt that ended the call is a thunk that threw, the
\* terminal error wraps the operation name and the message of that error,
\* and carries its HTTP status and response body when it had them; after
\* the budget is used up it is the error of the final attempt.
C24_TerminalErrorShape ==
    (pc = "thrown" /\ Invocations > 0
        /\ outcomes[Invocations].thunk.kind = "reject")
        => callError = Some(Wrapped(outcomes[Invocations].thunk.error[1]))

\* the budget is used up by network failures and a final HTTP 500
C24_Witness ==
    /\ pc = "thrown"
    /\ callKind = "api"
    /\ retryConfig.maxRetries = 2
    /\ Invocations = 3
    /\ outcomes[1].thunk = Rejected(PlainError("Network down"))
    /\ outcomes[2].thunk = Rejected(PlainError("Network down"))
    /\ outcomes[3].thunk = Rejected(HttpError("Request failed", 500))
    /\ callError[1].hasStatusCode
    /\ callError[1].statusCode = 500
    /\ callError[1].response = "payload"

\* the thunk raised an error with HTTP status 429 (rate limited)
RateLimited(entry) ==
    /\ entry.thunk.kind = "reject"
    /\ entry.thunk.error[1].hasResponse
    /\ entry.thunk.error[1].status = 429

\* C25: an attempt that ended with HTTP 429 while retries remain does not
\* end the call: the call sleeps for the backoff delay of that attempt
\* and invokes the thunk again.
C25_RateLimitRetried ==
    \A i \in 1..Invocations :
        (RateLimited(outcomes[i]) /\ i <= retryConfig.maxRetries)
            => /\ ~(pc = "thrown" /\ i = Invocations)
               /\ Len(delays) >= i
               /\ delays[i] = Min(retryConfig.baseDelay * 2^(i - 1),
                                  retryConfig.maxDelay)

(***************************************************************************)
(* Properties of the retry policy of a constructed provider.               *)
(***************************************************************************)
\* C26: the retry policy of every constructed provider has a non-negative
\* maxRetries and baseDelay <= maxDelay, also when it was built from a
\* partial override merged over the defaults.
C26_RetryPolicyInvariant ==
    instance # None =>
        /\ instance[1].retryConfig.maxRetries \in Nat
        /\ instance[1].retryConfig.baseDelay <= instance[1].retryConfig.maxDelay

(***************************************************************************)
(* Properties of two calls in flight on one provider.                      *)
(***************************************************************************)
\* invocation c can take its next step
CanStep(c) ==
    \/ calls[c].pc = "idle" /\ ENABLED StartCallOf(c)
    \/ calls[c].pc = "run"
          /\ ENABLED (\E o \in ApiThunkOutcomes : SettleOf(c, o))
    \/ calls[c].pc = "sleeping" /\ ENABLED SleepDoneOf(c)

\* C27: of two calls interleaved on one provider each has its own attempt
\* counter: the attempts of a call count its own failures only, and a call
\* raises the budget-exhausted error only after maxRetries + 1 invocations
\* of its own thunk; while one call sleeps the other can always take its
\* next step.
C27_IndependentCalls ==
    \A c \in Callers :
        /\ calls[c].invoked <= retryConfig.maxRetries + 1
        /\ calls[c].pc = "run" => calls[c].attempt = calls[c].failed
        /\ calls[c].pc = "sleeping" => calls[c].attempt + 1 = calls[c].failed
        /\ Len(calls[c].delays) = calls[c].attempt
              + (IF calls[c].pc = "sleeping" THEN 1 ELSE 0)
        /\ calls[c].cause = "exhausted"
              => /\ calls[c].invoked = retryConfig.maxRetries + 1
                 /\ calls[c].failed = retryConfig.maxRetries + 1
        /\ \A d \in Callers \ {c} :
              (calls[c].pc = "sleeping"
                  /\ calls[d].pc \notin {"returned", "thrown"})
                  => CanStep(d)

\* one call used up its budget while the other slept once and returned
C27_Witness ==
    /\ retryConfig.maxRetries = 2
    /\ calls[1].cause = "exhausted"
    /\ calls[1].invoked = 3
    /\ calls[2].pc = "returned"
    /\ calls[2].invoked = 2
    /\ Len(calls[2].delays) = 1

(***************************************************************************)
(* Properties of the product and metafield transformations.                *)
(***************************************************************************)
\* getProductById returned the transformation of a product
ProductTransformed ==
    /\ svcOp = "getProductById"
    /\ spc = "done"
    /\ svcOutcome[1].kind = "value"

\* the product the upstream gave to getProductById
GivenProduct == upstream[1].outcome.response[1].product[1]

\* the status is active and the first variant can be sold
ActiveAndSellable(p) ==
    /\ p.status = "ACTIVE"
    /\ p.variants # None
    /\ Len(p.variants[1]) > 0
    /\ p.variants[1][1].availableForSale = Some(TRUE)

\* C28: a product is available exactly when its status is active and its
\* first variant is sellable; a product with no variant is never
\* available.
C28_Availability ==
    ProductTransformed =>
        /\ (svcOutcome[1].value[1].available = Some(TRUE))
              <=> ActiveAndSellable(GivenProduct)
        /\ (GivenProduct.variants = None \/ GivenProduct.variants[1] = <<>>)
              => svcOutcome[1].value[1].available # Some(TRUE)

\* C28 for the GraphQL revision alone
C28_AvailabilityGraphQL ==
    (ProductTransformed /\ svcRevision = "graphql") =>
        /\ svcOutcome[1].value[1].available
              = Some(ActiveAndSellable(GivenProduct))
        /\ (GivenProduct.variants = None \/ GivenProduct.variants[1] = <<>>)
              => svcOutcome[1].value[1].available = Some(FALSE)

\* the value of the last personalization metafield of the list with the key
PersonalizationValue(metafields, key) ==
    LET hits == {i \in 1..Len(metafields) :
                    /\ metafields[i].namespace = "personalization"
                    /\ metafields[i].key = key}
    IN  IF hits = {} THEN None
        ELSE Some(metafields[CHOOSE i \in hits : \A j \in hits : j <= i].value)

\* the value of the last edge with the key, of the edges that the query
\* for the personalization namespace gave
EdgeValue(edges, key) ==
    LET hits == {i \in 1..Len(edges) : edges[i].key = key}
    IN  IF hits = {} THEN None
        ELSE Some(edges[CHOOSE i \in hits : \A j \in hits : j <= i].value)

\* the assigned product id read from an optional metafield value
ProductIdOf(v) == IF v = None \/ v[1] = <<>> THEN None ELSE Some(ParseInt(v[1]))

\* C29: the customer record is a function of the personalization
\* metafields with the keys profile_image_url and assigned_product_id
\* alone: a metafield of another namespace or with another key never
\* changes it.
C29_MetafieldExtraction ==
    /\ (/\ svcOp = "getCustomerById"
        /\ svcRevision = "rest"
        /\ Len(upstream) = 2
        /\ upstream[2].outcome.kind = "gives")
          => LET metafields == upstream[2].outcome.response[1].metafields
             IN  /\ svcOutcome[1].kind = "value"
                 /\ svcOutcome[1].value[1].profile_image_url
                       = PersonalizationValue(metafields, "profile_image_url")
                 /\ svcOutcome[1].value[1].assigned_product_id
                       = ProductIdOf(PersonalizationValue(
                                         metafields, "assigned_product_id"))
    /\ (/\ svcOp = "getCustomerById"
        /\ svcRevision \in {"graphql", "provider"}
        /\ spc = "done"
        /\ svcOutcome[1].kind = "value")
          => LET edges == svcCustomer[1].edges
             IN  /\ svcOutcome[1].value[1].profile_image_url
                       = EdgeValue(edges, "profile_image_url")
                 /\ svcOutcome[1].value[1].assigned_product_id
                       = ProductIdOf(EdgeValue(edges, "assigned_product_id"))

\* the REST revision was given metafields of another namespace and with
\* another key next to a personalization profile_image_url
C29_Witness ==
    /\ svcOp = "getCustomerById"
    /\ svcRevision = "rest"
    /\ spc = "done"
    /\ Len(upstream) = 2
    /\ upstream[2].outcome.kind = "gives"
    /\ Len(upstream[2].outcome.response[1].metafields) = 3
    /\ svcOutcome[1].value[1].profile_image_url = Some(<<"https://x/img.jpg">>)
    /\ svcOutcome[1].value[1].assigned_product_id = None

(***************************************************************************)
(* Properties of the response validation of makeApiCall.                   *)
(***************************************************************************)
\* the message of the terminal error for an envelope v that carries errors
ValidationFailure(v) ==
    "test operation failed: Shopify API error for test operation: "
        \o (IF v.errKind = "array" THEN Join(v.errList) ELSE v.errList[1])

\* C30: when the thunk resolves with an envelope that is empty the call
\* fails with the empty-response error; when the envelope carries an
\* errors field the call fails with an error whose message holds the array
\* joined by ", " or the raw string; any other resolved value is returned
\* as it is.
C30_ResponseValidation ==
    (callKind = "api" /\ Settled) =>
        \A i \in 1..Invocations :
            outcomes[i].thunk.kind = "resolve" =>
                LET v == outcomes[i].thunk.value[1]
                IN  IF v.hasBody /\ ~Truthy(v)
                    THEN /\ pc = "thrown"
                         /\ callError[1].message =
                              "test operation failed: "
                                  \o "No response received for test operation"
                    ELSE IF CarriesErrors(v)
                    THEN /\ pc = "thrown"
                         /\ callError[1].message = ValidationFailure(v)
                    ELSE /\ pc = "returned"
                         /\ callResult = Some(v)

\* C30 for the value of the last attempt only
C30_ResponseValidationLastAttempt ==
    (callKind = "api" /\ Settled /\ Invocations > 0
        /\ outcomes[Invocations].thunk.kind = "resolve") =>
        LET v == outcomes[Invocations].thunk.value[1]
        IN  IF CarriesErrors(v)
            THEN /\ pc = "thrown"
                 /\ callError[1].message = ValidationFailure(v)
            ELSE /\ pc = "returned"
                 /\ callResult = Some(v)

(***************************************************************************)
(* Further properties of makeApiCall.                                      *)
(***************************************************************************)
\* C31: whatever the thunk does, it is invoked at most maxRetries + 1
\* times and at most maxRetries sleeps are performed; a call that sleeps
\* has an invocation left, and a settled call has slept exactly once
\* between two invocations: no sleep follows the final attempt.
C31_RetryLoopInvariant ==
    /\ Invocations <= retryConfig.maxRetries + 1
    /\ Len(delays) <= retryConfig.maxRetries
    /\ pc = "sleeping" =>
          /\ Len(delays) = Invocations
          /\ Invocations <= retryConfig.maxRetries
    /\ pc = "run" => Len(delays) = Invocations
    /\ Settled => /\ Invocations >= 1
                  /\ Len(delays) = Invocations - 1

\* a call settled after a retryable failure, a sleep, and a 4xx error
C31_Witness ==
    /\ pc = "thrown"
    /\ retryConfig.maxRetries = 3
    /\ Invocations = 2
    /\ RaisedRetryable(outcomes[1])
    /\ RaisedClientError(outcomes[2])
    /\ Len(delays) = 1

\* C32: when every invocation of the thunk settles and every sleep ends, a
\* call that was started eventually returns a value or raises its terminal
\* error, for every retry policy and whatever the thunk does; no step
\* other than those of the loop is needed.
C32_Termination == (pc \in {"run", "sleeping"}) ~> Settled

\* the call ended after the whole budget, each attempt a network failure
C32_Witness ==
    /\ pc = "thrown"
    /\ retryConfig.maxRetries = 3
    /\ Invocations = 4
    /\ Len(delays) = 3
    /\ \A i \in 1..4 : outcomes[i].thunk = Rejected(PlainError("Network down"))

(***************************************************************************)
(* Further properties of handleUserLanding.                                *)
(***************************************************************************)
\* the product lookup made for the assigned-product id raised an error
AssignedLookupRaised(i) ==
    /\ lookups[i].op \in {"getAssignedProduct", "getProductById"}
    /\ i <= Len(results)
    /\ results[i].kind = "throw"

\* C33: when the lookup of the assigned product raises an error, the
\* request has ended with one response, of status 500 and without
\* success; the default product was not looked up and the sentinel was not
\* used.
C33_AssignedLookupFailure ==
    \A i \in 1..Len(lookups) :
        AssignedLookupRaised(i)
            => /\ hpc = "done"
               /\ i = Len(lookups)
               /\ Len(responses) = 1
               /\ responses[1].status = 500
               /\ ~responses[1].body.success
               /\ LookupsOf("getDefaultProduct") = {}
               /\ LookupsOf("getDefaultProductData") = {}

\* the service based handler met a failing getAssignedProduct
C33_Witness ==
    /\ revision = "client"
    /\ hpc = "done"
    /\ Len(lookups) = 2
    /\ AssignedLookupRaised(2)
    /\ lookups[2].op = "getAssignedProduct"
    /\ responses[1].status = 500

(***************************************************************************)
(* Further properties of the ShopifyApiProvider singleton.                 *)
(***************************************************************************)
\* this step is a getInstance call
GetInstanceStep ==
    /\ Len(history') = Len(history) + 1
    /\ history'[Len(history')].op = "getInstance"

\* C34: a getInstance call made while an instance exists returns that
\* instance and leaves its configuration and retry policy as they were,
\* whatever the call passes; a call made when none exists (at first, or
\* after reset) builds the instance from the arguments it passes.
C34_FirstConfigurationWins ==
    [][GetInstanceStep =>
          LET call == history'[Len(history')]
          IN  /\ instance # None =>
                    /\ instance' = instance
                    /\ ~call.constructed
                    /\ call.result = Some(instance[1].id)
              /\ (instance = None /\ ~call.threw) =>
                    /\ call.constructed
                    /\ instance'[1].apiConfig = lastArgs'[1].apiConfig
                    /\ instance'[1].retryConfig
                          = MergeRetryConfig(lastArgs'[1].override)]_vars

\* the latest call passed another configuration and another retry policy
\* than the instance has, and got the instance built by the first call
C34_Witness ==
    /\ Len(history) = 2
    /\ history[1].constructed /\ history[1].result = Some(1)
    /\ history[2].op = "getInstance" /\ ~history[2].constructed
    /\ history[2].result = Some(1)
    /\ instance # None
    /\ lastArgs[1].apiConfig # instance[1].apiConfig
    /\ ~LacksRequiredField(lastArgs[1].apiConfig)
    /\ MergeRetryConfig(lastArgs[1].override) # instance[1].retryConfig

\* the latest call, if there is one, was a getInstance that threw
FailedLast == history # <<>> /\ history[Len(history)].threw

\* C35: a getInstance call that throws the configuration error stores no
\* instance and returns none; the getInstance call that follows it runs
\* the constructor again, which throws again exactly when the
\* configuration it is given lacks a required field and otherwise stores
\* and returns an instance with that configuration.
C35_FailedGetInstance ==
    [][GetInstanceStep =>
          LET call == history'[Len(history')]
          IN  /\ call.threw => /\ instance' = None
                               /\ call.result = None
              /\ FailedLast =>
                    /\ instance = None
                    /\ call.constructed
                    /\ call.threw
                          <=> LacksRequiredField(lastArgs'[1].apiConfig)
                    /\ ~call.threw =>
                          /\ instance' # None
                          /\ call.result = Some(instance'[1].id)
                          /\ instance'[1].apiConfig = lastArgs'[1].apiConfig
                          /\ ~LacksRequiredField(instance'[1].apiConfig)]_vars

\* getInstance failed twice on invalid configurations and then built an
\* instance from a valid one
C35_Witness ==
    /\ Len(history) = 3
    /\ history[1].op = "getInstance" /\ history[1].threw
    /\ history[2].op = "getInstance" /\ history[2].threw
    /\ history[3].op = "getInstance" /\ ~history[3].threw
    /\ history[3].constructed
    /\ instance # None
    /\ history[3].result = Some(instance[1].id)
    /\ created = 3

(***************************************************************************)
(* Further properties of the seeder.                                       *)
(***************************************************************************)
\* the create call i of the batch failed for another reason than a conflict
NonConflictFailure(i) ==
    /\ seedCalls[i].outcome.kind = "raises"
    /\ seedCalls[i].outcome.error[1] \notin ConflictErrors

\* C36: a create that fails for another reason than an existing unique
\* field ends the batch: seedCustomers / seedProducts throws that error,
\* the failed create is the last one made, no create can follow it, and
\* the batch does not return.
C36_FailureAbortsBatch ==
    \A i \in 1..Len(seedCalls) :
        NonConflictFailure(i) =>
            /\ seedPc = "thrown"
            /\ seedError = seedCalls[i].outcome.error
            /\ i = Len(seedCalls)
            /\ \A o \in CreateOutcomes : ~ENABLED CreateSettled(o)

\* the second create of a batch of three failed on the network
C36_Witness ==
    /\ seedPc = "thrown"
    /\ Len(seedInput) = 3
    /\ Len(seedCalls) = 2
    /\ seedCalls[1].outcome.kind = "gives"
    /\ NonConflictFailure(2)
    /\ seedError # None
    /\ Includes(seedError[1].message, "Network down")

(***************************************************************************)
(* Properties of runSeeders.                                               *)
(***************************************************************************)
\* the handles of the default products
ProductHandles ==
    {GetDefaultProducts[j].handle : j \in 1..Len(GetDefaultProducts)}

\* the customer create calls runSeeders has made so far
CustomerCreates ==
    IF run.pc \in {"customers", "returned"} THEN seedCalls ELSE <<>>

\* the product create calls runSeeders has made so far
ProductCreates ==
    IF run.pc = "products" THEN seedCalls ELSE run.productCalls

\* C37: runSeeders creates no customer before every default product was
\* processed; the product map never holds the id -1; and the
\* assigned_product_id of every customer sent upstream is empty or the
\* decimal id that the create of the assigned product gave in this run,
\* never a product handle.
C37_SeedingOrder ==
    /\ CustomerCreates # <<>>
          => /\ Len(ProductCreates) = Len(GetDefaultProducts)
             /\ \A j \in 1..Len(GetDefaultProducts) :
                   ProductCreates[j].data = GetDefaultProducts[j]
    /\ run.pc = "products" => seedKind = "products"
    /\ \A k \in 1..Len(seedMap) : seedMap[k].value > 0
    /\ \A k \in 1..Len(run.productMap) : run.productMap[k].value > 0
    /\ \A i \in 1..Len(CustomerCreates) :
          LET sent == CustomerCreates[i].data
          IN  /\ sent.email = GetDefaultCustomers[i].email
              /\ sent.assigned_product_id \notin ProductHandles
              /\ \/ sent.assigned_product_id = ""
                 \/ \E j \in 1..Len(ProductCreates) :
                       /\ ProductCreates[j].data.handle
                             = GetDefaultCustomers[i].assigned_product_id
                       /\ ProductCreates[j].outcome.kind = "gives"
                       /\ sent.assigned_product_id
                             = ProductIdToString(
                                   ProductCreates[j].outcome.response[1])

\* the first product existed already and the second was created with the
\* id 456: the first customer was sent without a product, the second with
\* "456"
C37_Witness ==
    /\ run.pc = "returned"
    /\ run.productCalls[1].outcome.kind = "raises"
    /\ run.productCalls[2].outcome = Gives(456)
    /\ Len(seedCalls) = Len(GetDefaultCustomers)
    /\ seedCalls[1].data.assigned_product_id = ""
    /\ seedCalls[2].data.assigned_product_id = "456"
    /\ run.result[1].productIds = <<456>>

(***************************************************************************)
(* Properties of createCustomer and getProductsByIds.                      *)
(***************************************************************************)
\* the entries of the payload sent upstream under the key
EntriesFor(key) ==
    LET metafields == upstream[1].payload.customer.metafields
    IN  {i \in 1..Len(metafields) : metafields[i].key = key}

\* the field was given to createCustomer with a non-empty value
GivenNonEmpty(field) == field \notin {None, Some(<<>>)}

\* C38: the payload of createCustomer has one personalization metafield of
\* type single_line_text_field for profile_image_url, and one for
\* assigned_product_id, exactly when that field of the input is present and
\* not empty, with the value of the field, and no other entry; createCustomer
\* raises an error when the response has no customer or the customer no id.
C38_CreateCustomerPayload ==
    (svcOp = "createCustomer" /\ spc = "done") =>
        LET request == svcCustomer[1]
            metafields == upstream[1].payload.customer.metafields
            o == upstream[1].outcome
        IN  /\ Len(upstream) = 1
            /\ \A key \in {"profile_image_url", "assigned_product_id"} :
                  LET field == IF key = "profile_image_url"
                               THEN request.profile_image_url
                               ELSE request.assigned_product_id
                  IN  /\ GivenNonEmpty(field) <=> EntriesFor(key) # {}
                      /\ Cardinality(EntriesFor(key)) <= 1
                      /\ \A i \in EntriesFor(key) :
                            /\ metafields[i].value = field[1]
            /\ \A i \in 1..Len(metafields) :
                  /\ metafields[i].namespace = "personalization"
                  /\ metafields[i].type = "single_line_text_field"
                  /\ metafields[i].key
                        \in {"profile_image_url", "assigned_product_id"}
            /\ (/\ o.kind = "gives"
                /\ \/ o.response[1].customer = None
                   \/ o.response[1].customer[1].id = None)
                  => /\ svcOutcome[1].kind = "throw"
                     /\ svcOutcome[1].error[1].message
                           = <<"Failed to create customer: Invalid response">>

\* a customer with an image and an empty assigned product was sent with one
\* metafield, and the response had a customer without id
C38_Witness ==
    /\ svcOp = "createCustomer" /\ spc = "done"
    /\ svcCustomer[1].profile_image_url = Some(<<"https://x/img.jpg">>)
    /\ svcCustomer[1].assigned_product_id = Some(<<>>)
    /\ Len(upstream[1].payload.customer.metafields) = 1
    /\ upstream[1].outcome = Gives([customer |-> Some([id |-> None])])
    /\ svcOutcome[1].kind = "throw"

\* the products found by the lookups, in the order of the lookups
RECURSIVE FoundProducts(_)
FoundProducts(log) ==
    IF log = <<>> THEN <<>>
    ELSE FoundProducts(SubSeq(log, 1, Len(log) - 1))
            \o (IF log[Len(log)].result.kind = "value"
                THEN <<log[Len(log)].result.value[1]>> ELSE <<>>)

\* C39: getProductsByIds looks the ids up one by one in input order; a
\* lookup that throws or gives null adds nothing and does not end the
\* loop; the call returns once every id was looked up, with the products
\* found, in input order.
C39_ProductsByIds ==
    /\ Len(byIds.lookups) <= Len(byIds.productIds)
    /\ \A i \in 1..Len(byIds.lookups) :
          /\ byIds.lookups[i].productId = byIds.productIds[i]
          /\ (byIds.lookups[i].result.kind \in {"throw", "null"}
              /\ i < Len(byIds.productIds))
                => (byIds.pc = "running" \/ Len(byIds.lookups) > i)
    /\ byIds.pc = "running" => Len(byIds.lookups) < Len(byIds.productIds)
    /\ byIds.pc = "returned"
          => Len(byIds.lookups) = Len(byIds.productIds)
    /\ byIds.products = FoundProducts(byIds.lookups)

\* of three lookups the first threw, the second gave null and the third
\* gave a product, which is the result
C39_Witness ==
    /\ byIds.pc = "returned"
    /\ Len(byIds.productIds) = 3
    /\ byIds.lookups[1].result.kind = "throw"
    /\ byIds.lookups[2].result.kind = "null"
    /\ byIds.lookups[3].result.kind = "value"
    /\ byIds.products = <<byIds.lookups[3].result.value[1]>>

====
